---- MODULE Spec2Model ----
(***************************************************************************)
(* A model of the crypto ETL pipeline: extract.py (HTTP call, validation,  *)
(* raw archive), transform.py (null cleaning, numeric coercion, volatility *)
(* score, timestamp, projection), load.py (sub-batched upsert over one     *)
(* PostgreSQL transaction per sub-batch) and etl_pipeline.py (one run, the *)
(* run-once mode and the APScheduler recurring mode).                      *)
(*                                                                         *)
(* Python values are records [t, h, s]: t is the type tag, h the numeric   *)
(* value in halves (so 1.5 is h = 3 and the int 2 is h = 4), s the text of *)
(* a str as a sequence of one-character strings.                           *)
(***************************************************************************)
EXTENDS Integers, Sequences, FiniteSets, TLC

VARIABLES
    \* transform.py: the argument, the wall clock, the position and the result of a
    \* call; the caller's list after the call, and the wall clock and the result of a
    \* second call on that list
    rawIn, clock, tpc, tResult, rawAfter, clock2, tResult2,
    \* extract.py: what the network and the file system will answer, the argument
    \* save_raw, the position and the result of a call, the HTTP requests issued and
    \* the raw files written
    response, archiveFault, saveRaw, epc, eData, eResult, httpCalls, archive,
    \* load.py: the arguments data and batch_size, the position in load_data /
    \* load_batch, the index of the next record, the two counters, the result, the
    \* number of the call (the same batch may be loaded a second time)
    ldata, lbatch, lpc, li, success_count, error_count, lResult, loadNo,
    \* the database: the committed rows of crypto_market, the rows as the open
    \* transaction of the connection sees them, whether that transaction is aborted,
    \* the next value of the id sequence, the connections open, the commits done,
    \* the failures the server or the network may still produce
    store, txRows, txAborted, nextId, connHeld, commits, faultsLeft,
    \* the committed rows before the first load and after it; of the running
    \* load_batch call: the records load_single_record returned True for, what raised
    \* out of the try block and where, the calls of conn.rollback(), and the records
    \* handed to load_single_record, in the order of the calls
    store0, storeAfterFirst, okRecs, lfault, rollbacks, attempted,
    \* etl_pipeline.py: the run mode, the position of the main thread, whether
    \* setup_database established the schema, the run of each thread (thread 0 is the
    \* main thread, the others are the scheduler's pool threads), the scheduler's
    \* count of running instances of etl_job, the interval firings so far and those
    \* for which no run was started
    mode, mainPc, schemaReady, run, instances, ticks, skipped,
    \* setup_database: its position, what it returned or that it raised, whether conn
    \* and cursor of create_tables are bound, the return value that waits for the
    \* finally block
    spc, sResult, sConn, sCursor, sPending,
    \* the runs the scheduler started, the runs that returned False in a row, the
    \* value of started when the stop signal came, the exit status of the process
    started, failedRuns, stopAt, exitCode,
    \* database.py: the module global connection_pool, the connections opened so far
    \* and those closed, of each caller of get_connection its position, the connection
    \* it was handed and the exception its last call raised, and the connections
    \* that a release put back on the free list of a pool
    connection_pool, opened, closed, cpc, cconn, cerr, returned

tvars == <<rawIn, clock, tpc, tResult, rawAfter, clock2, tResult2>>
evars == <<response, archiveFault, saveRaw, epc, eData, eResult, httpCalls, archive>>
lvars == <<ldata, lbatch, lpc, li, success_count, error_count, lResult, loadNo>>
dvars == <<store, txRows, txAborted, nextId, connHeld, commits, faultsLeft>>
hvars == <<store0, storeAfterFirst, okRecs, lfault, rollbacks, attempted>>
pvars == <<mode, mainPc, schemaReady, run, instances, ticks, skipped,
          spc, sResult, sConn, sCursor, sPending, started, failedRuns, stopAt, exitCode>>

cvars == <<connection_pool, opened, closed, cpc, cconn, cerr, returned>>

vars == <<tvars, evars, lvars, dvars, hvars, pvars, cvars>>

-----------------------------------------------------------------------------
(* Python values *)

None == [t |-> "none", h |-> 0, s |-> <<>>]
PyInt(n) == [t |-> "int", h |-> 2 * n, s |-> <<>>]
PyFloat(halves) == [t |-> "float", h |-> halves, s |-> <<>>]
PyStr(chars) == [t |-> "str", h |-> 0, s |-> chars]
PyDatetime(n) == [t |-> "datetime", h |-> n, s |-> <<>>]
\* the outcome of an expression that raised (ValueError, TypeError, AttributeError)
Raise == [t |-> "raise", h |-> 0, s |-> <<>>]

IsNumber(v) == v.t \in {"int", "float"}

\* Python's == on two values: numbers compare by value whatever their type (0 == 0.0)
PyEq(a, b) ==
    IF IsNumber(a) /\ IsNumber(b) THEN a.h = b.h ELSE a = b

\* bool(v): None, 0, 0.0 and "" are falsy
Truthy(v) ==
    CASE v.t = "none" -> FALSE
      [] v.t \in {"int", "float"} -> v.h # 0
      [] v.t = "str" -> v.s # <<>>
      [] OTHER -> TRUE

\* the expression `v or d`
PyOr(v, d) == IF Truthy(v) THEN v ELSE d

Digits == {"0", "1", "2", "5"}
DigitVal(c) == CASE c = "0" -> 0 [] c = "1" -> 1 [] c = "2" -> 2 [] c = "5" -> 5

RECURSIVE NatOf(_)
NatOf(chars) ==
    IF chars = <<>> THEN 0
    ELSE 10 * NatOf(SubSeq(chars, 1, Len(chars) - 1)) + DigitVal(chars[Len(chars)])

AllDigits(chars) == chars # <<>> /\ \A i \in 1..Len(chars) : chars[i] \in Digits

DotAt(chars) == {i \in 1..Len(chars) : chars[i] = "."}

\* int("12") = 12, int("-2") = -2; int(""), int("1.5") and int("x") raise ValueError
ParseInt(chars) ==
    IF chars # <<>> /\ chars[1] = "-"
    THEN IF AllDigits(Tail(chars)) THEN PyInt(0 - NatOf(Tail(chars))) ELSE Raise
    ELSE IF AllDigits(chars) THEN PyInt(NatOf(chars)) ELSE Raise

\* the halves of a fraction part: "" and "0" are 0, "5" is one half
FracHalves(chars) == IF chars = <<"5">> THEN 1 ELSE 0
FracOk(chars) == chars \in {<<>>, <<"0">>, <<"5">>}

\* float("2") = 2.0, float("1.5") = 1.5, float("-1.5") = -1.5; float(""), float("x")
\* raise ValueError. Fraction digits are .0 or .5, the grid of the values of the model.
ParseUFloat(chars) ==
    IF DotAt(chars) = {} THEN
        IF AllDigits(chars) THEN PyFloat(2 * NatOf(chars)) ELSE Raise
    ELSE LET d == CHOOSE i \in DotAt(chars) : TRUE
             whole == SubSeq(chars, 1, d - 1)
             frac == SubSeq(chars, d + 1, Len(chars))
         IN IF Cardinality(DotAt(chars)) = 1 /\ AllDigits(whole) /\ FracOk(frac)
            THEN PyFloat(2 * NatOf(whole) + FracHalves(frac))
            ELSE Raise

ParseFloat(chars) ==
    IF chars # <<>> /\ chars[1] = "-"
    THEN LET u == ParseUFloat(Tail(chars))
         IN IF u = Raise THEN Raise ELSE PyFloat(0 - u.h)
    ELSE ParseUFloat(chars)

\* float(v)
ToFloat(v) ==
    CASE v.t = "int" -> PyFloat(v.h)
      [] v.t = "float" -> v
      [] v.t = "str" -> ParseFloat(v.s)
      [] OTHER -> Raise

\* int(v): a float is truncated toward zero
ToInt(v) ==
    CASE v.t = "int" -> v
      [] v.t = "float" -> IF v.h >= 0 THEN PyInt(v.h \div 2) ELSE PyInt(0 - ((0 - v.h) \div 2))
      [] v.t = "str" -> ParseInt(v.s)
      [] OTHER -> Raise

\* abs(v) of a float
PyAbs(v) == IF v = Raise THEN Raise ELSE PyFloat(IF v.h < 0 THEN 0 - v.h ELSE v.h)

\* x * n of a float x and an int n: a float
PyMul(x, n) == IF x = Raise \/ n = Raise THEN Raise ELSE PyFloat(x.h * (n.h \div 2))

UpperChar(c) ==
    CASE c = "b" -> "B" [] c = "t" -> "T" [] c = "c" -> "C" [] c = "e" -> "E"
      [] c = "h" -> "H" [] c = "i" -> "I" [] OTHER -> c

\* v.upper(): only a str has the method (AttributeError otherwise)
PyUpper(v) ==
    IF v.t = "str" THEN PyStr([i \in 1..Len(v.s) |-> UpperChar(v.s[i])]) ELSE Raise

\* dict.get(k, d) and d[k] = v
Get(coin, k, d) == IF k \in DOMAIN coin THEN coin[k] ELSE d
Put(coin, k, v) == [x \in (DOMAIN coin) \cup {k} |-> IF x = k THEN v ELSE coin[x]]

-----------------------------------------------------------------------------
(* transform.py *)

MutNullDefaultRank999(key) ==
    CASE key \in {"current_price", "price_change_24h", "price_change_percentage_24h"} -> PyFloat(0)
      [] key \in {"market_cap", "total_volume"} -> PyInt(0)
      [] key \in {"market_cap_rank"} -> PyInt(999)
      [] OTHER -> None

NullDefault(key) ==
    CASE key \in {"current_price", "price_change_24h", "price_change_percentage_24h"} -> PyFloat(0)
      [] key \in {"market_cap", "total_volume"} -> PyInt(0)
      [] key \in {"market_cap_rank"} -> PyInt(9999)
      [] OTHER -> None

clean_coin(coin) ==
    [key \in DOMAIN coin |-> IF coin[key] = None THEN NullDefault(key) ELSE coin[key]]

clean_null_values(data) == [i \in 1..Len(data) |-> clean_coin(data[i])]

ConvertField(coin, key, conv, dflt) ==
    IF key \in DOMAIN coin
    THEN Put(coin, key, IF conv = "float" THEN ToFloat(PyOr(coin[key], dflt))
                                           ELSE ToInt(PyOr(coin[key], dflt)))
    ELSE coin

convert_coin(coin) ==
    LET c1 == ConvertField(coin, "current_price", "float", PyInt(0))
        c2 == ConvertField(c1, "market_cap", "int", PyInt(0))
        c3 == ConvertField(c2, "total_volume", "int", PyInt(0))
        c4 == ConvertField(c3, "price_change_24h", "float", PyInt(0))
    IN ConvertField(c4, "market_cap_rank", "int", PyInt(9999))

convert_numeric_fields(data) == [i \in 1..Len(data) |-> convert_coin(data[i])]

MutVolatilityNoAbs(coin) ==
    LET price_change == ToFloat(PyOr(Get(coin, "price_change_24h", PyInt(0)), PyInt(0)))
        volume == ToInt(PyOr(Get(coin, "total_volume", PyInt(0)), PyInt(0)))
    IN Put(coin, "volatility_score", PyMul(price_change, volume))

volatility_coin(coin) ==
    LET price_change == PyAbs(ToFloat(PyOr(Get(coin, "price_change_24h", PyInt(0)), PyInt(0))))
        volume == ToInt(PyOr(Get(coin, "total_volume", PyInt(0)), PyInt(0)))
    IN Put(coin, "volatility_score", PyMul(price_change, volume))

add_volatility_score(data) == [i \in 1..Len(data) |-> volatility_coin(data[i])]

MutTimestampPerRecord(data, now) ==
    [i \in 1..Len(data) |-> Put(data[i], "extracted_at", PyDatetime(now + i - 1))]

\* timestamp = datetime.now() is read once, before the loop
add_extraction_timestamp(data, now) ==
    [i \in 1..Len(data) |-> Put(data[i], "extracted_at", PyDatetime(now))]

MutSelectKeepsCase(coin) ==
    [coin_id |-> Get(coin, "id", PyStr(<<>>)),
     symbol |-> Get(coin, "symbol", PyStr(<<>>)),
     name |-> Get(coin, "name", PyStr(<<>>)),
     current_price |-> Get(coin, "current_price", PyInt(0)),
     market_cap |-> Get(coin, "market_cap", PyInt(0)),
     total_volume |-> Get(coin, "total_volume", PyInt(0)),
     price_change_24h |-> Get(coin, "price_change_24h", PyInt(0)),
     market_cap_rank |-> Get(coin, "market_cap_rank", PyInt(9999)),
     volatility_score |-> Get(coin, "volatility_score", PyInt(0)),
     extracted_at |-> Get(coin, "extracted_at", None)]

select_coin(coin) ==
    [coin_id |-> Get(coin, "id", PyStr(<<>>)),
     symbol |-> PyUpper(Get(coin, "symbol", PyStr(<<>>))),
     name |-> Get(coin, "name", PyStr(<<>>)),
     current_price |-> Get(coin, "current_price", PyInt(0)),
     market_cap |-> Get(coin, "market_cap", PyInt(0)),
     total_volume |-> Get(coin, "total_volume", PyInt(0)),
     price_change_24h |-> Get(coin, "price_change_24h", PyInt(0)),
     market_cap_rank |-> Get(coin, "market_cap_rank", PyInt(9999)),
     volatility_score |-> Get(coin, "volatility_score", PyInt(0)),
     extracted_at |-> Get(coin, "extracted_at", None)]

select_required_fields(data) == [i \in 1..Len(data) |-> select_coin(data[i])]

\* a stage raised on some record: the exception leaves transform_data
Raised(data) == \E i \in 1..Len(data) : \E k \in DOMAIN data[i] : data[i][k] = Raise

Failure == [ok |-> FALSE, data |-> <<>>]
Success(data) == [ok |-> TRUE, data |-> data]

MutTransformSkipsBadRecords(raw_data, now) ==
    LET Good(coin) == ~Raised(<<convert_coin(clean_coin(coin))>>)
        d1 == clean_null_values(SelectSeq(raw_data, Good))
        d2 == convert_numeric_fields(d1)
        d3 == add_volatility_score(d2)
        d4 == add_extraction_timestamp(d3, now)
        d5 == select_required_fields(d4)
    IN IF Raised(d3) THEN Failure
       ELSE IF Raised(d5) THEN Failure
       ELSE Success(d5)

transform_data(raw_data, now) ==
    LET d1 == clean_null_values(raw_data)
        d2 == convert_numeric_fields(d1)
        d3 == add_volatility_score(d2)
        d4 == add_extraction_timestamp(d3, now)
        d5 == select_required_fields(d4)
    IN IF Raised(d2) THEN Failure
       ELSE IF Raised(d3) THEN Failure
       ELSE IF Raised(d5) THEN Failure
       ELSE Success(d5)

-----------------------------------------------------------------------------
(* transform.py: the dicts of the caller's list, which the stages may write to *)

HasRaise(coin) == \E k \in DOMAIN coin : coin[k] = Raise

MutCleanInPlace(i, n) == i

\* clean_null_values: `cleaned_coin = {}` is a new dict for every coin of the list,
\* at an address no dict of the caller has; the caller's n dicts are at 1..n
CleanedAddr(i, n) == n + i

\* the five conversions of convert_numeric_fields, in the order of the code
ConvertSpecs ==
    << <<"current_price", "float", PyInt(0)>>, <<"market_cap", "int", PyInt(0)>>,
       <<"total_volume", "int", PyInt(0)>>, <<"price_change_24h", "float", PyInt(0)>>,
       <<"market_cap_rank", "int", PyInt(9999)>> >>

\* the dict as convert_numeric_fields leaves it when float() or int() raises on it:
\* the fields before the failing one are converted, the failing one is not assigned
RECURSIVE PartialConvertFrom(_, _)
PartialConvertFrom(coin, k) ==
    IF k > Len(ConvertSpecs) THEN coin
    ELSE LET c == ConvertField(coin, ConvertSpecs[k][1], ConvertSpecs[k][2], ConvertSpecs[k][3])
         IN IF HasRaise(c) THEN coin ELSE PartialConvertFrom(c, k + 1)

PartialConvert(coin) == PartialConvertFrom(coin, 1)

\* add_volatility_score raises before `coin['volatility_score'] = ...`
PartialVolatility(coin) == coin

\* a stage `for coin in data:` that writes to the dicts it is given: the dicts before
\* the first one it raises on are done, that one is left as the stage got to, the
\* later ones are not reached
InPlace(objs, done, partial) ==
    LET bad == {i \in 1..Len(objs) : HasRaise(done[i])}
    IN [i \in 1..Len(objs) |->
           IF bad = {} \/ \A j \in bad : i < j THEN done[i]
           ELSE IF \A j \in bad : i <= j THEN partial[i]
           ELSE objs[i]]

\* the stage raised on one of the dicts
StageRaised(done) == \E i \in 1..Len(done) : HasRaise(done[i])

\* the dicts of the cleaned list when transform_data returns or raises
CleanedAfter(raw_data, now) ==
    LET o1 == clean_null_values(raw_data)
        c1 == [i \in 1..Len(o1) |-> convert_coin(o1[i])]
        o2 == InPlace(o1, c1, [i \in 1..Len(o1) |-> PartialConvert(o1[i])])
        c2 == [i \in 1..Len(o2) |-> volatility_coin(o2[i])]
        o3 == InPlace(o2, c2, [i \in 1..Len(o2) |-> PartialVolatility(o2[i])])
        o4 == add_extraction_timestamp(o3, now)
    IN IF StageRaised(c1) THEN o2
       ELSE IF StageRaised(c2) THEN o3
       ELSE o4

\* the caller's list after the call: its dict i was written to only if the cleaned
\* list holds that very dict
RawAfter(raw_data, now) ==
    [i \in 1..Len(raw_data) |->
        IF CleanedAddr(i, Len(raw_data)) = i THEN CleanedAfter(raw_data, now)[i]
        ELSE raw_data[i]]

-----------------------------------------------------------------------------
(* The inputs of transform_data: raw coins as the API (or any caller) may send them *)

MaxBatch == 2
MaxClock == 2

Absent == [t |-> "absent", h |-> 0, s |-> <<>>]

RawFields == {"id", "symbol", "name", "current_price", "market_cap", "total_volume",
              "price_change_24h", "market_cap_rank", "volatility_score", "image"}

\* a dict from a choice of a value, or Absent, for every field
MkCoin(f) == [k \in {x \in DOMAIN f : f[x] # Absent} |-> f[k]]

BaseCoin ==
    [id |-> PyStr(<<"b", "t", "c">>), symbol |-> PyStr(<<"b", "t", "c">>),
     name |-> PyStr(<<"B", "i", "t">>), current_price |-> PyFloat(5),
     market_cap |-> PyInt(7), total_volume |-> PyInt(3), price_change_24h |-> PyFloat(-3),
     market_cap_rank |-> PyInt(1), volatility_score |-> Absent, image |-> Absent]

With(f, k, v) == [f EXCEPT ![k] = v]

\* every combination of present, null and absent over the five numeric fields
NullFamily ==
    {MkCoin([BaseCoin EXCEPT !["current_price"] = cp, !["market_cap"] = mc,
                             !["total_volume"] = tv, !["price_change_24h"] = pc,
                             !["market_cap_rank"] = rk]) :
        cp \in {Absent, None, PyFloat(5)}, mc \in {Absent, None, PyInt(7)},
        tv \in {Absent, None, PyInt(3)}, pc \in {Absent, None, PyFloat(-3)},
        rk \in {Absent, None, PyInt(1)}}

PriceChangeValues ==
    {PyFloat(-3), PyFloat(0), PyInt(0), PyInt(2), PyStr(<<"1", ".", "5">>),
     PyStr(<<"-", "2">>), PyStr(<<>>), PyStr(<<"x">>)}

VolumeValues ==
    {PyInt(0), PyInt(3), PyFloat(5), PyFloat(-3), PyStr(<<"2">>), PyStr(<<"1", ".", "5">>)}

\* the inputs of the volatility score, with and without an upstream volatility_score
VolatilityFamily ==
    {MkCoin([BaseCoin EXCEPT !["price_change_24h"] = pc, !["total_volume"] = tv,
                             !["volatility_score"] = vs]) :
        pc \in PriceChangeValues, tv \in VolumeValues, vs \in {Absent, PyFloat(7), None}}

\* identifiers, symbols in several cases, names, and a field outside the schema
ProjectionFamily ==
    {MkCoin([BaseCoin EXCEPT !["id"] = id, !["symbol"] = sy, !["name"] = nm, !["image"] = im]) :
        id \in {Absent, None, PyStr(<<"b", "t", "c">>)},
        sy \in {Absent, None, PyStr(<<"b", "t", "c">>), PyStr(<<"E", "t", "h">>),
                PyStr(<<"B", "T", "C">>)},
        nm \in {Absent, None, PyStr(<<"B", "i", "t">>)},
        im \in {Absent, PyStr(<<"x">>)}}

NumericFields == {"current_price", "market_cap", "total_volume", "price_change_24h",
                  "market_cap_rank"}

\* one numeric field sent as a string, as garbage, as a float or as zero
CoercionFamily ==
    {MkCoin(With(BaseCoin, k, v)) :
        k \in NumericFields,
        v \in {PyStr(<<"x">>), PyStr(<<"1", ".", "5">>), PyStr(<<"2">>), PyFloat(5),
               PyInt(0), PyStr(<<>>)}}

RawCoins == NullFamily \cup VolatilityFamily \cup ProjectionFamily \cup CoercionFamily

\* the other coins of a batch
OtherCoins ==
    {MkCoin([BaseCoin EXCEPT !["id"] = PyStr(<<"e", "t", "h">>),
                             !["symbol"] = PyStr(<<"e", "t", "h">>)]),
     MkCoin([BaseCoin EXCEPT !["id"] = PyStr(<<"e", "t", "h">>),
                             !["price_change_24h"] = None, !["market_cap_rank"] = Absent]),
     MkCoin([BaseCoin EXCEPT !["market_cap"] = PyStr(<<"x">>)])}

SeqsUpTo(S, n) == UNION {[1..k -> S] : k \in 0..n}

\* a batch: one coin of RawCoins among up to MaxBatch - 1 other coins, or no coin at all
RawBatches ==
    {<<>>} \cup
    {pre \o <<c>> \o post :
        c \in RawCoins,
        pre \in SeqsUpTo(OtherCoins, MaxBatch - 1),
        post \in SeqsUpTo(OtherCoins, MaxBatch - 1)} 

TransformIdle ==
    /\ rawIn = <<>>
    /\ clock = 1
    /\ tpc = "idle"
    /\ tResult = Failure
    /\ rawAfter = <<>>
    /\ clock2 = 1
    /\ tResult2 = Failure

-----------------------------------------------------------------------------
(* load.py and the crypto_market table of database.py *)

MaxLoad == 3
MaxFaults == 1
SmallBatch == 2
DefaultBatchSize == 100

\* the columns declared NOT NULL in CREATE TABLE crypto_market
NotNullColumns == {"coin_id", "symbol", "name", "extracted_at"}

\* the statement fails in the server: a NULL in a NOT NULL column
ViolatesConstraint(record) == \E c \in NotNullColumns : record[c] = None

\* a Python number as the value of a FLOAT column
SqlFloat(v) == IF IsNumber(v) THEN PyFloat(v.h) ELSE v

\* a Python number as the value of a BIGINT or INTEGER column: a fractional value is
\* rounded, half away from zero
SqlInteger(v) ==
    IF v.t = "float"
    THEN IF v.h >= 0 THEN PyInt((v.h + 1) \div 2) ELSE PyInt(0 - ((1 - v.h) \div 2))
    ELSE v

MutSameKeyCoinOnly(row, record) == row.coin_id = record.coin_id

\* the conflict target of the statement, and the UNIQUE constraint of the table
SameKey(row, record) ==
    row.coin_id = record.coin_id /\ row.extracted_at = record.extracted_at

NewRow(record, id) ==
    [id |-> id, coin_id |-> record.coin_id, symbol |-> record.symbol, name |-> record.name,
     current_price |-> SqlFloat(record.current_price),
     market_cap |-> SqlInteger(record.market_cap),
     total_volume |-> SqlInteger(record.total_volume),
     price_change_24h |-> SqlFloat(record.price_change_24h),
     market_cap_rank |-> SqlInteger(record.market_cap_rank),
     volatility_score |-> SqlFloat(record.volatility_score),
     extracted_at |-> record.extracted_at]

MutUpdateAllColumns(row, record) ==
    [row EXCEPT !.symbol = record.symbol, !.name = record.name,
                !.current_price = SqlFloat(record.current_price),
                !.market_cap = SqlInteger(record.market_cap),
                !.total_volume = SqlInteger(record.total_volume),
                !.price_change_24h = SqlFloat(record.price_change_24h),
                !.market_cap_rank = SqlInteger(record.market_cap_rank),
                !.volatility_score = SqlFloat(record.volatility_score)]

\* ON CONFLICT (coin_id, extracted_at) DO UPDATE SET: the six columns it names
UpdatedRow(row, record) ==
    [row EXCEPT !.current_price = SqlFloat(record.current_price),
                !.market_cap = SqlInteger(record.market_cap),
                !.total_volume = SqlInteger(record.total_volume),
                !.price_change_24h = SqlFloat(record.price_change_24h),
                !.market_cap_rank = SqlInteger(record.market_cap_rank),
                !.volatility_score = SqlFloat(record.volatility_score)]

MutInsertOnly(rows, record, id) == rows \cup {NewRow(record, id)}

\* the rows after INSERT ... ON CONFLICT (coin_id, extracted_at) DO UPDATE of
\* create_upsert_query, for a record the table accepts
Upsert(rows, record, id) ==
    IF \E row \in rows : SameKey(row, record)
    THEN {IF SameKey(row, record) THEN UpdatedRow(row, record) ELSE row : row \in rows}
    ELSE rows \cup {NewRow(record, id)}

\* cursor.execute(query, record) raises: the transaction is already aborted (every
\* statement fails until it ends) or the record violates a constraint
ExecuteFails(record) == txAborted \/ ViolatesConstraint(record)

\* record number i (from 1) is the last of its sub-batch data[k : k + batch_size]
EndOfSubBatch(i) == i % lbatch = 0 \/ i = Len(ldata)

MutLoadResultTotalIsSuccesses(s, e, n) ==
    [ok |-> TRUE, success_count |-> s, error_count |-> e, total |-> s]

\* return {'success_count': ..., 'error_count': ..., 'total': len(data)}
LoadResult(s, e, n) == [ok |-> TRUE, success_count |-> s, error_count |-> e, total |-> n]
LoadRaised == [ok |-> FALSE, success_count |-> 0, error_count |-> 0, total |-> 0]

MutNeverEmpty(data) == FALSE

\* `not transformed_data`: the list is empty
IsEmptyInput(data) == Len(data) = 0

\* load_data: `if not transformed_data` returns zero counts, else load_batch starts.
\* lbatch is batch_size: 100 when load_data calls load_batch, SmallBatch for a direct
\* call load_batch(data, batch_size) that cuts the batch into several sub-batches.
LoadData ==
    /\ lpc = "call"
    /\ IF IsEmptyInput(ldata)
       THEN lpc' = "returned" /\ lResult' = LoadResult(0, 0, 0)
       ELSE lpc' = "connect" /\ UNCHANGED lResult
    /\ UNCHANGED <<ldata, lbatch, li, success_count, error_count, loadNo>>
    /\ UNCHANGED <<tvars, evars, dvars, hvars, pvars, cvars>>

NoFault == [kind |-> "none", li |-> 0, commits |-> 0]

\* what raised, and how far the loop and the commits had come when it did
FaultAt(kind) == [kind |-> kind, li |-> li, commits |-> commits]

\* conn = get_connection(): no pool was initialized, so psycopg2.connect opens a
\* connection, or raises. conn is still None then: the except block rolls nothing
\* back and the finally block releases nothing.
GetConnection ==
    /\ lpc = "connect"
    /\ \/ /\ connHeld' = connHeld + 1
          /\ txRows' = store
          /\ txAborted' = FALSE
          /\ lpc' = "cursor"
          /\ UNCHANGED <<faultsLeft, lResult, lfault>>
       \/ /\ faultsLeft > 0
          /\ faultsLeft' = faultsLeft - 1
          /\ lfault' = FaultAt("connect")
          /\ lpc' = "raised"
          /\ lResult' = LoadRaised
          /\ UNCHANGED <<connHeld, txRows, txAborted>>
    /\ UNCHANGED <<ldata, lbatch, li, success_count, error_count, loadNo>>
    /\ UNCHANGED <<store, nextId, commits>>
    /\ UNCHANGED <<store0, storeAfterFirst, okRecs, rollbacks, attempted>>
    /\ UNCHANGED <<tvars, evars, pvars, cvars>>

\* cursor = conn.cursor(), or it raises with conn bound and cursor still None; the
\* loop `for i in range(0, len(data), batch_size)` has no turn for an empty list
OpenCursor ==
    /\ lpc = "cursor"
    /\ \/ /\ lpc' = IF Len(ldata) = 0 THEN "finish" ELSE "record"
          /\ UNCHANGED <<faultsLeft, lfault>>
       \/ /\ faultsLeft > 0
          /\ faultsLeft' = faultsLeft - 1
          /\ lfault' = FaultAt("cursor")
          /\ lpc' = "except"
    /\ UNCHANGED <<ldata, lbatch, li, success_count, error_count, lResult, loadNo>>
    /\ UNCHANGED <<store, txRows, txAborted, nextId, connHeld, commits>>
    /\ UNCHANGED <<store0, storeAfterFirst, okRecs, rollbacks, attempted>>
    /\ UNCHANGED <<tvars, evars, pvars, cvars>>

\* one turn of `for record in batch`: load_single_record returns True or, having
\* caught the exception of cursor.execute, False. The id sequence advances with every
\* INSERT the server runs, also one that fails or updates.
LoadRecord ==
    /\ lpc = "record"
    /\ LET record == ldata[li]
       IN IF ExecuteFails(record)
          THEN /\ error_count' = error_count + 1
               /\ nextId' = IF txAborted THEN nextId ELSE nextId + 1
               /\ txAborted' = TRUE
               /\ UNCHANGED <<success_count, txRows, okRecs>>
          ELSE /\ success_count' = success_count + 1
               /\ okRecs' = okRecs \cup {li}
               /\ txRows' = Upsert(txRows, record, nextId)
               /\ nextId' = nextId + 1
               /\ UNCHANGED <<error_count, txAborted>>
    /\ li' = li + 1
    /\ lpc' = IF EndOfSubBatch(li) THEN "commit" ELSE "record"
    /\ UNCHANGED <<ldata, lbatch, lResult, loadNo>>
    /\ UNCHANGED <<store, connHeld, commits, faultsLeft>>
    /\ UNCHANGED <<store0, storeAfterFirst, lfault, rollbacks>>
    /\ attempted' = Append(attempted, li)
    /\ UNCHANGED <<tvars, evars, pvars, cvars>>

MutCommitErrorContinues == IF li > Len(ldata) THEN "finish" ELSE "record"

\* conn.commit() raised inside the try block: control goes to `except Exception`
CommitErrorGoesTo == "except"

\* conn.commit(): COMMIT of an aborted transaction rolls it back and reports no error;
\* a commit over a broken connection raises
Commit ==
    /\ lpc = "commit"
    /\ \/ /\ store' = IF txAborted THEN store ELSE txRows
          /\ txRows' = IF txAborted THEN store ELSE txRows
          /\ txAborted' = FALSE
          /\ commits' = commits + 1
          /\ lpc' = IF li > Len(ldata) THEN "finish" ELSE "record"
          /\ UNCHANGED <<faultsLeft, lfault>>
       \/ /\ faultsLeft > 0
          /\ faultsLeft' = faultsLeft - 1
          /\ lfault' = FaultAt("commit")
          /\ lpc' = CommitErrorGoesTo
          /\ UNCHANGED <<store, txRows, txAborted, commits>>
    /\ UNCHANGED <<nextId, connHeld>>
    /\ UNCHANGED <<ldata, lbatch, li, success_count, error_count, lResult, loadNo>>
    /\ UNCHANGED <<store0, storeAfterFirst, okRecs, rollbacks, attempted>>
    /\ UNCHANGED <<tvars, evars, pvars, cvars>>

\* except Exception: conn.rollback(); raise, and then the finally block:
\* cursor.close() if a cursor was made; release_connection(conn)
LoadExcept ==
    /\ lpc = "except"
    /\ txRows' = store
    /\ txAborted' = FALSE
    /\ rollbacks' = rollbacks + 1
    /\ connHeld' = connHeld - 1
    /\ lResult' = LoadRaised
    /\ lpc' = "raised"
    /\ UNCHANGED <<ldata, lbatch, li, success_count, error_count, loadNo>>
    /\ UNCHANGED <<store, nextId, commits, faultsLeft>>
    /\ UNCHANGED <<store0, storeAfterFirst, okRecs, lfault, attempted>>
    /\ UNCHANGED <<tvars, evars, pvars, cvars>>

\* the loop ended: the finally block, then return {...}
LoadReturn ==
    /\ lpc = "finish"
    /\ connHeld' = connHeld - 1
    /\ lResult' = LoadResult(success_count, error_count, Len(ldata))
    /\ lpc' = "returned"
    /\ UNCHANGED <<ldata, lbatch, li, success_count, error_count, loadNo>>
    /\ UNCHANGED <<store, txRows, txAborted, nextId, commits, faultsLeft>>
    /\ UNCHANGED <<tvars, evars, hvars, pvars, cvars>>

\* the process is killed inside the loop of load_batch: no handler of it runs, and the
\* server ends the session and discards the open transaction
Crash ==
    /\ lpc \in {"record", "commit"}
    /\ lpc' = "crashed"
    /\ txRows' = store
    /\ txAborted' = FALSE
    /\ connHeld' = connHeld - 1
    /\ UNCHANGED <<ldata, lbatch, li, success_count, error_count, lResult, loadNo>>
    /\ UNCHANGED <<store, nextId, commits, faultsLeft>>
    /\ UNCHANGED <<tvars, evars, hvars, pvars, cvars>>

\* load_data is called again with the same batch (a re-run of the same snapshot)
LoadAgain ==
    /\ lpc = "returned"
    /\ loadNo = 1
    /\ loadNo' = 2
    /\ storeAfterFirst' = store
    /\ lpc' = "call"
    /\ li' = 1
    /\ success_count' = 0
    /\ error_count' = 0
    /\ commits' = 0
    /\ okRecs' = {}
    /\ attempted' = <<>>
    /\ UNCHANGED <<ldata, lbatch, lResult, store0, lfault, rollbacks>>
    /\ UNCHANGED <<store, txRows, txAborted, nextId, connHeld, faultsLeft>>
    /\ UNCHANGED <<tvars, evars, pvars, cvars>>

\* the raw coins whose transforms are loaded: two values for the key btc (with a
\* different symbol and name), eth, eth with a null name, sol with a null symbol default
LoadCoins ==
    {MkCoin(BaseCoin),
     MkCoin([BaseCoin EXCEPT !["current_price"] = PyFloat(7), !["name"] = PyStr(<<"B">>),
                             !["total_volume"] = PyInt(5)]),
     MkCoin([BaseCoin EXCEPT !["id"] = PyStr(<<"e", "t", "h">>),
                             !["symbol"] = PyStr(<<"e", "t", "h">>)]),
     MkCoin([BaseCoin EXCEPT !["id"] = PyStr(<<"e", "t", "h">>),
                             !["symbol"] = PyStr(<<"e", "t", "h">>), !["name"] = None]),
     MkCoin([BaseCoin EXCEPT !["id"] = PyStr(<<"s">>), !["symbol"] = Absent,
                             !["market_cap"] = None])}

\* the batches: what transform_data returns for up to MaxLoad of these coins
LoadBatches ==
    {transform_data(raw, ts).data : raw \in SeqsUpTo(LoadCoins, MaxLoad), ts \in 1..MaxClock}

\* the table before the load: empty, or holding rows of an earlier run
EarlierRow(coin, ts, id) ==
    NewRow(transform_data(<<MkCoin([BaseCoin EXCEPT !["id"] = PyStr(coin),
                                                    !["current_price"] = PyFloat(1)])>>,
                          ts).data[1], id)

InitialStores ==
    {{},
     {EarlierRow(<<"b", "t", "c">>, 1, 1)},
     {EarlierRow(<<"b", "t", "c">>, 2, 1), EarlierRow(<<"e", "t", "h">>, 1, 2)}}

LoadIdle ==
    /\ ldata = <<>>
    /\ lbatch = DefaultBatchSize
    /\ lpc = "idle"
    /\ li = 1
    /\ success_count = 0
    /\ error_count = 0
    /\ lResult = LoadRaised
    /\ loadNo = 1
    /\ store = {}
    /\ txRows = {}
    /\ txAborted = FALSE
    /\ nextId = 1
    /\ connHeld = 0
    /\ commits = 0
    /\ faultsLeft = 0
    /\ store0 = {}
    /\ storeAfterFirst = {}
    /\ okRecs = {}
    /\ lfault = NoFault
    /\ rollbacks = 0
    /\ attempted = <<>>

-----------------------------------------------------------------------------
(* etl_pipeline.py: one run, run_once, and run_scheduled_pipeline on APScheduler's *)
(* BlockingScheduler, whose jobs run on the threads of its default executor; and   *)
(* setup_database of database.py, which both modes call first                      *)

MaxWorkers == 2
MaxTicks == 3

\* add_job passes no max_instances: the job keeps APScheduler's default of one
\* running instance
MaxInstances == 1

MainThread == 0
Threads == 0..MaxWorkers
PoolThreads == 1..MaxWorkers

Stages == <<"extract", "transform", "load">>

setupVars == <<spc, sResult, sConn, sCursor, sPending, schemaReady>>
schedVars == <<instances, ticks, skipped, started>>
procVars == <<mode, mainPc, failedRuns, stopAt, exitCode>>

\* the database variables that a connection of setup_database leaves alone
dbRest == <<store, txRows, txAborted, nextId, commits, faultsLeft>>

NoRun == [pc |-> "idle", stages |-> <<>>, failedAt |-> "none", wrote |-> FALSE,
          uncommitted |-> FALSE, loadErrors |-> "n/a", result |-> "none"]

\* run_etl_pipeline entered: STEP 1, extract_crypto_data(save_raw=True), is running
NewRun == [pc |-> "extracting", stages |-> <<"extract">>, failedAt |-> "none",
           wrote |-> FALSE, uncommitted |-> FALSE, loadErrors |-> "n/a", result |-> "none"]

StageOf(pc) ==
    CASE pc = "extracting" -> "extract"
      [] pc = "transforming" -> "transform"
      [] pc = "loading" -> "load"
      [] OTHER -> "none"

Running(r) == r.pc \in {"extracting", "transforming", "loading"}

\* a pool thread with no job function on it
Free(r) == r.pc \in {"idle", "ended"}

MutNextPcIgnoresRaise(pc, raised) ==
    CASE pc = "extracting" -> "transforming"
      [] pc = "transforming" -> "loading"
      [] pc = "loading" -> "completed"

\* where run_etl_pipeline goes when the stage at pc returns, or raises into
\* `except Exception`
NextPc(pc, raised) ==
    IF raised THEN "failed"
    ELSE CASE pc = "extracting" -> "transforming"
           [] pc = "transforming" -> "loading"
           [] pc = "loading" -> "completed"

MutFailOnLoadErrors(errors) == IF errors = "zero" THEN "completed" ELSE "failed"

\* STEP 3: load_result = load_data(...) returned; its counts are logged and nothing
\* else reads them before `return True`
AfterLoad(errors) == "completed"

\* the error_count of the LoadResult a run may get: 0, some of the records, or all of
\* them, the last only when no record was written
LoadErrorCounts(r) == IF r.wrote THEN {"zero", "some"} ELSE {"zero", "some", "all"}

\* the stage a thread is in returns or raises. load_data returns after the commit of
\* its last sub-batch; when it raises, load_batch has rolled back what was not
\* committed.
StageEnds(th, raised) ==
    /\ Running(run[th])
    /\ raised \/ ~run[th].uncommitted
    /\ LET r == run[th]
       IN \E errors \in IF r.pc = "loading" /\ ~raised THEN LoadErrorCounts(r) ELSE {"n/a"} :
            LET next == IF errors # "n/a" THEN AfterLoad(errors) ELSE NextPc(r.pc, raised)
            IN run' = [run EXCEPT ![th] =
                    [r EXCEPT !.pc = next,
                              !.stages = IF StageOf(next) # "none"
                                         THEN Append(r.stages, StageOf(next)) ELSE r.stages,
                              !.failedAt = IF raised THEN StageOf(r.pc) ELSE r.failedAt,
                              !.uncommitted = FALSE,
                              !.loadErrors = errors]]
    /\ UNCHANGED <<setupVars, schedVars, procVars>>
    /\ UNCHANGED <<tvars, evars, lvars, dvars, hvars, cvars>>

StageReturns(th) == StageEnds(th, FALSE)

StageRaises(th) == StageEnds(th, TRUE)

\* load_data writes rows of the run to the table, inside the transaction of a sub-batch
StoreWrite(th) ==
    /\ run[th].pc = "loading"
    /\ ~run[th].wrote
    /\ run' = [run EXCEPT ![th].wrote = TRUE, ![th].uncommitted = TRUE]
    /\ UNCHANGED <<setupVars, schedVars, procVars>>
    /\ UNCHANGED <<tvars, evars, lvars, dvars, hvars, cvars>>

\* conn.commit() of that sub-batch
StoreCommit(th) ==
    /\ run[th].pc = "loading"
    /\ run[th].uncommitted
    /\ run' = [run EXCEPT ![th].uncommitted = FALSE]
    /\ UNCHANGED <<setupVars, schedVars, procVars>>
    /\ UNCHANGED <<tvars, evars, lvars, dvars, hvars, cvars>>

\* test_connection: conn = get_connection()
TestGetConnection ==
    /\ mainPc = "setup"
    /\ spc = "tc_connect"
    /\ \/ connHeld' = connHeld + 1 /\ spc' = "tc_cursor"
       \/ spc' = "tc_except" /\ UNCHANGED connHeld
    /\ UNCHANGED <<sResult, sConn, sCursor, sPending, schemaReady>>
    /\ UNCHANGED <<run, schedVars, procVars, dbRest>>
    /\ UNCHANGED <<tvars, evars, lvars, hvars, cvars>>

\* test_connection: cursor = conn.cursor()
TestCursor ==
    /\ mainPc = "setup"
    /\ spc = "tc_cursor"
    /\ spc' \in {"tc_execute", "tc_except"}
    /\ UNCHANGED <<sResult, sConn, sCursor, sPending, schemaReady>>
    /\ UNCHANGED <<run, schedVars, procVars>>
    /\ UNCHANGED <<tvars, evars, lvars, dvars, hvars, cvars>>

\* test_connection: cursor.execute("SELECT version();") and, when it did not raise,
\* cursor.close(); release_connection(conn); return True, on which setup_database
\* calls create_tables
TestExecute ==
    /\ mainPc = "setup"
    /\ spc = "tc_execute"
    /\ \/ connHeld' = connHeld - 1 /\ spc' = "ct_connect"
       \/ spc' = "tc_except" /\ UNCHANGED connHeld
    /\ UNCHANGED <<sResult, sConn, sCursor, sPending, schemaReady>>
    /\ UNCHANGED <<run, schedVars, procVars, dbRest>>
    /\ UNCHANGED <<tvars, evars, lvars, hvars, cvars>>

\* test_connection: except Exception: print; return False. Nothing releases conn
\* here. setup_database then returns False without calling create_tables.
TestExcept ==
    /\ mainPc = "setup"
    /\ spc = "tc_except"
    /\ sResult' = "False"
    /\ spc' = "returned"
    /\ UNCHANGED <<sConn, sCursor, sPending, schemaReady>>
    /\ UNCHANGED <<run, schedVars, procVars>>
    /\ UNCHANGED <<tvars, evars, lvars, dvars, hvars, cvars>>

\* create_tables: conn = None; conn = get_connection()
CreateGetConnection ==
    /\ mainPc = "setup"
    /\ spc = "ct_connect"
    /\ \/ connHeld' = connHeld + 1 /\ sConn' = TRUE /\ spc' = "ct_cursor"
       \/ spc' = "ct_except" /\ UNCHANGED <<connHeld, sConn>>
    /\ UNCHANGED <<sResult, sCursor, sPending, schemaReady>>
    /\ UNCHANGED <<run, schedVars, procVars, dbRest>>
    /\ UNCHANGED <<tvars, evars, lvars, hvars, cvars>>

\* create_tables: cursor = conn.cursor(), the first binding of the name cursor
CreateCursor ==
    /\ mainPc = "setup"
    /\ spc = "ct_cursor"
    /\ \/ sCursor' = TRUE /\ spc' = "ct_execute"
       \/ spc' = "ct_except" /\ UNCHANGED sCursor
    /\ UNCHANGED <<sResult, sConn, sPending, schemaReady>>
    /\ UNCHANGED <<run, schedVars, procVars>>
    /\ UNCHANGED <<tvars, evars, lvars, dvars, hvars, cvars>>

\* create_tables: CREATE TABLE IF NOT EXISTS crypto_market and the three indexes
CreateExecute ==
    /\ mainPc = "setup"
    /\ spc = "ct_execute"
    /\ spc' \in {"ct_commit", "ct_except"}
    /\ UNCHANGED <<sResult, sConn, sCursor, sPending, schemaReady>>
    /\ UNCHANGED <<run, schedVars, procVars>>
    /\ UNCHANGED <<tvars, evars, lvars, dvars, hvars, cvars>>

\* create_tables: conn.commit(); return True, which waits for the finally block
CreateCommit ==
    /\ mainPc = "setup"
    /\ spc = "ct_commit"
    /\ \/ schemaReady' = TRUE /\ sPending' = "True" /\ spc' = "ct_finally"
       \/ spc' = "ct_except" /\ UNCHANGED <<schemaReady, sPending>>
    /\ UNCHANGED <<sResult, sConn, sCursor>>
    /\ UNCHANGED <<run, schedVars, procVars>>
    /\ UNCHANGED <<tvars, evars, lvars, dvars, hvars, cvars>>

\* create_tables: except Exception: if conn: conn.rollback(); return False, which
\* waits for the finally block
CreateExcept ==
    /\ mainPc = "setup"
    /\ spc = "ct_except"
    /\ sPending' = "False"
    /\ spc' = "ct_finally"
    /\ UNCHANGED <<sResult, sConn, sCursor, schemaReady>>
    /\ UNCHANGED <<run, schedVars, procVars>>
    /\ UNCHANGED <<tvars, evars, lvars, dvars, hvars, cvars>>

\* create_tables: finally: if cursor: cursor.close(); if conn: release_connection(conn).
\* The name cursor is unbound when get_connection or conn.cursor() raised: `if cursor`
\* raises UnboundLocalError, which replaces the pending return and skips the release.
CreateFinally ==
    /\ mainPc = "setup"
    /\ spc = "ct_finally"
    /\ IF sCursor
       THEN /\ connHeld' = IF sConn THEN connHeld - 1 ELSE connHeld
            /\ sResult' = sPending
            /\ spc' = "returned"
       ELSE /\ sResult' = "raised"
            /\ spc' = "raised"
            /\ UNCHANGED connHeld
    /\ UNCHANGED <<sConn, sCursor, sPending, schemaReady>>
    /\ UNCHANGED <<run, schedVars, procVars, dbRest>>
    /\ UNCHANGED <<tvars, evars, lvars, hvars, cvars>>

\* setup_database() at the head of run_once and of run_scheduled_pipeline returned:
\* its value (False when the connection test or the DDL failed) is not looked at
SetupDatabaseReturns ==
    /\ mainPc = "setup"
    /\ spc = "returned"
    /\ mainPc' = "run"
    /\ UNCHANGED <<mode, failedRuns, stopAt, exitCode>>
    /\ UNCHANGED <<run, setupVars, schedVars>>
    /\ UNCHANGED <<tvars, evars, lvars, dvars, hvars, cvars>>

\* setup_database() raised: nothing catches it, the interpreter prints the traceback
\* and ends with status 1
SetupDatabaseRaises ==
    /\ mainPc = "setup"
    /\ spc = "raised"
    /\ mainPc' = "crashed"
    /\ exitCode' = 1
    /\ UNCHANGED <<mode, failedRuns, stopAt>>
    /\ UNCHANGED <<run, setupVars, schedVars>>
    /\ UNCHANGED <<tvars, evars, lvars, dvars, hvars, cvars>>

\* run_etl_pipeline() called by the main thread: run_once, or "run once immediately"
MainRunStarts ==
    /\ mainPc = "run"
    /\ run' = [run EXCEPT ![MainThread] = NewRun]
    /\ mainPc' = "running"
    /\ UNCHANGED <<mode, failedRuns, stopAt, exitCode>>
    /\ UNCHANGED <<setupVars, schedVars>>
    /\ UNCHANGED <<tvars, evars, lvars, dvars, hvars, cvars>>

MutMainStopsOnFailure(result) ==
    IF mode = "once" \/ result = "False" THEN "exit" ELSE "scheduling"

\* what the main thread does with the value of run_etl_pipeline(): run_once returns
\* it, run_scheduled_pipeline drops it and goes on to add_job and scheduler.start()
MainAfterRun(result) == IF mode = "once" THEN "exit" ELSE "scheduling"

\* the runs that returned False since the last one that returned True
FailedRunsAfter(result) == IF result = "False" THEN failedRuns + 1 ELSE 0

\* run_etl_pipeline returns True or False to the main thread
MainRunEnds ==
    /\ mainPc = "running"
    /\ run[MainThread].pc \in {"completed", "failed"}
    /\ LET result == IF run[MainThread].pc = "completed" THEN "True" ELSE "False"
       IN /\ run' = [run EXCEPT ![MainThread].result = result, ![MainThread].pc = "ended",
                                ![MainThread].loadErrors = "n/a"]
          /\ mainPc' = MainAfterRun(result)
          /\ failedRuns' = FailedRunsAfter(result)
    /\ UNCHANGED <<mode, stopAt, exitCode>>
    /\ UNCHANGED <<setupVars, schedVars>>
    /\ UNCHANGED <<tvars, evars, lvars, dvars, hvars, cvars>>

\* the end of the script after run_once(): its value is dropped and no sys.exit is
\* called, so the interpreter ends with status 0
ProcessExit ==
    /\ mainPc = "exit"
    /\ mainPc' = "exited"
    /\ exitCode' = 0
    /\ UNCHANGED <<mode, failedRuns, stopAt>>
    /\ UNCHANGED <<run, setupVars, schedVars>>
    /\ UNCHANGED <<tvars, evars, lvars, dvars, hvars, cvars>>

MutCanSubmitAlways(n) == TRUE

\* the executor's check in submit_job: fewer than max_instances running
CanSubmit(n) == n < MaxInstances

\* the interval fires: the scheduler submits etl_job to a pool thread, or, with
\* max_instances running, skips this run time
Tick ==
    /\ mainPc = "scheduling"
    /\ ticks < MaxTicks
    /\ ticks' = ticks + 1
    /\ IF CanSubmit(instances) /\ \E th \in PoolThreads : Free(run[th])
       THEN /\ \E th \in PoolThreads :
                /\ Free(run[th])
                /\ run' = [run EXCEPT ![th] = NewRun]
            /\ instances' = instances + 1
            /\ started' = started + 1
            /\ UNCHANGED skipped
       ELSE /\ skipped' = skipped + 1
            /\ UNCHANGED <<run, instances, started>>
    /\ UNCHANGED <<setupVars, procVars>>
    /\ UNCHANGED <<tvars, evars, lvars, dvars, hvars, cvars>>

\* the job function returned on a pool thread: the executor counts the instance out
JobEnds(th) ==
    /\ th \in PoolThreads
    /\ run[th].pc \in {"completed", "failed"}
    /\ LET result == IF run[th].pc = "completed" THEN "True" ELSE "False"
       IN /\ run' = [run EXCEPT ![th].result = result, ![th].pc = "ended",
                                ![th].loadErrors = "n/a"]
          /\ failedRuns' = FailedRunsAfter(result)
    /\ instances' = instances - 1
    /\ UNCHANGED <<mode, mainPc, stopAt, exitCode>>
    /\ UNCHANGED <<setupVars, ticks, skipped, started>>
    /\ UNCHANGED <<tvars, evars, lvars, dvars, hvars, cvars>>

NoStop == 0 - 1

\* Ctrl-C in recurring mode: KeyboardInterrupt is raised in the main thread. While the
\* main thread is inside the immediate first run, no handler of run_etl_pipeline
\* (`except Exception`) or of run_scheduled_pipeline (its try starts at
\* scheduler.start()) catches it: the run stops at the statement it was in and the
\* interpreter ends with the status of SIGINT. While the main thread is inside
\* scheduler.start(), the except clause calls scheduler.shutdown(), which waits for
\* the jobs on the pool threads.
Interrupt ==
    /\ mode = "schedule"
    /\ stopAt = NoStop
    /\ stopAt' = started
    /\ \/ /\ mainPc = "running"
          /\ Running(run[MainThread])
          /\ run' = [run EXCEPT ![MainThread].pc = "interrupted"]
          /\ mainPc' = "crashed"
          /\ exitCode' = 130
       \/ /\ mainPc = "scheduling"
          /\ mainPc' = "shutdown"
          /\ UNCHANGED <<run, exitCode>>
    /\ UNCHANGED <<mode, failedRuns>>
    /\ UNCHANGED <<setupVars, schedVars>>
    /\ UNCHANGED <<tvars, evars, lvars, dvars, hvars, cvars>>

\* scheduler.shutdown() returned: no job is running; run_scheduled_pipeline returns
ShutdownEnds ==
    /\ mainPc = "shutdown"
    /\ instances = 0
    /\ mainPc' = "exit"
    /\ UNCHANGED <<mode, failedRuns, stopAt, exitCode>>
    /\ UNCHANGED <<run, setupVars, schedVars>>
    /\ UNCHANGED <<tvars, evars, lvars, dvars, hvars, cvars>>

NoExit == 0 - 1

PipelineIdle ==
    /\ mode = "none"
    /\ mainPc = "idle"
    /\ schemaReady = FALSE
    /\ run = [th \in Threads |-> NoRun]
    /\ instances = 0
    /\ ticks = 0
    /\ skipped = 0
    /\ started = 0
    /\ spc = "idle"
    /\ sResult = "none"
    /\ sConn = FALSE
    /\ sCursor = FALSE
    /\ sPending = "none"
    /\ failedRuns = 0
    /\ stopAt = NoStop
    /\ exitCode = NoExit

-----------------------------------------------------------------------------
(* extract.py *)

MaxPayload == 2

RequiredFields == {"id", "symbol", "name", "current_price", "market_cap"}

\* a decoded JSON document: a list of coins, or something that is not a list (the
\* object {"error": ...} the API sends)
JsonList(items) == [isList |-> TRUE, items |-> items]
JsonObject == [isList |-> FALSE, items |-> <<>>]

NoException == "none"
ExtractFailure(exc) == [ok |-> FALSE, data |-> <<>>, exc |-> exc]
ExtractSuccess(data) == [ok |-> TRUE, data |-> data, exc |-> NoException]

MutValidateFirstCoin(data) ==
    IF ~data.isList THEN "ValueError"
    ELSE IF Len(data.items) = 0 THEN "ValueError"
    ELSE IF \E field \in RequiredFields : field \notin DOMAIN data.items[1] THEN "ValueError"
    ELSE NoException

\* the exception validate_response raises, or none when it returns True
validate_response(data) ==
    IF ~data.isList THEN "ValueError"
    ELSE IF Len(data.items) = 0 THEN "ValueError"
    ELSE IF \E i \in 1..Len(data.items) :
                \E field \in RequiredFields : field \notin DOMAIN data.items[i]
         THEN "ValueError"
    ELSE NoException

\* the exception save_raw_json raises, or none: os.makedirs and open may fail
save_raw_json(fault) ==
    IF fault = "none" THEN NoException ELSE "OSError"

\* every handler of extract_crypto_data logs and re-raises
ExtractRaise(exc) ==
    /\ eResult' = ExtractFailure(exc)
    /\ epc' = "raised"

\* response = requests.get(COINGECKO_API_URL, ..., timeout=30)
HttpGet ==
    /\ epc = "start"
    /\ httpCalls' = httpCalls + 1
    /\ IF response.kind = "timeout" THEN ExtractRaise("Timeout")
       ELSE IF response.kind = "connection" THEN ExtractRaise("ConnectionError")
       ELSE epc' = "status" /\ UNCHANGED eResult
    /\ UNCHANGED <<response, archiveFault, saveRaw, eData, archive>>
    /\ UNCHANGED <<tvars, lvars, dvars, hvars, pvars, cvars>>

MutNo429Check(status) == IF status >= 400 THEN "HTTPError" ELSE NoException

\* if response.status_code == 429: raise Exception(...), a plain Exception; then
\* response.raise_for_status(), which raises HTTPError for 4xx and 5xx
StatusException(status) ==
    IF status = 429 THEN "Exception"
    ELSE IF status >= 400 THEN "HTTPError"
    ELSE NoException

CheckStatus ==
    /\ epc = "status"
    /\ IF StatusException(response.status) # NoException
       THEN ExtractRaise(StatusException(response.status))
       ELSE epc' = "json" /\ UNCHANGED eResult
    /\ UNCHANGED <<response, archiveFault, saveRaw, eData, httpCalls, archive>>
    /\ UNCHANGED <<tvars, lvars, dvars, hvars, pvars, cvars>>

\* data = response.json()
ParseJson ==
    /\ epc = "json"
    /\ IF ~response.decodes THEN ExtractRaise("JSONDecodeError") /\ UNCHANGED eData
       ELSE epc' = "validate" /\ eData' = response.body /\ UNCHANGED eResult
    /\ UNCHANGED <<response, archiveFault, saveRaw, httpCalls, archive>>
    /\ UNCHANGED <<tvars, lvars, dvars, hvars, pvars, cvars>>

\* validate_response(data)
ValidateResponse ==
    /\ epc = "validate"
    /\ IF validate_response(eData) # NoException THEN ExtractRaise(validate_response(eData))
       ELSE epc' = "archive" /\ UNCHANGED eResult
    /\ UNCHANGED <<response, archiveFault, saveRaw, eData, httpCalls, archive>>
    /\ UNCHANGED <<tvars, lvars, dvars, hvars, pvars, cvars>>

\* if save_raw: save_raw_json(data); then return data. save_raw_json is called inside
\* the try block, so what it raises reaches `except Exception`, which re-raises.
SaveAndReturn ==
    /\ epc = "archive"
    /\ IF saveRaw /\ save_raw_json(archiveFault) # NoException
       THEN ExtractRaise(save_raw_json(archiveFault)) /\ UNCHANGED archive
       ELSE /\ archive' = IF saveRaw THEN Append(archive, eData) ELSE archive
            /\ eResult' = ExtractSuccess(eData.items)
            /\ epc' = "returned"
    /\ UNCHANGED <<response, archiveFault, saveRaw, eData, httpCalls>>
    /\ UNCHANGED <<tvars, lvars, dvars, hvars, pvars, cvars>>

\* the coins of a payload: every subset of the required fields, a coin whose required
\* fields are present but null, and a coin with fields beyond the required ones
PayloadCoins ==
    {[k \in S |-> BaseCoin[k]] : S \in SUBSET RequiredFields}
    \cup {[k \in RequiredFields |-> None]}
    \cup {MkCoin(BaseCoin)}

Payloads == {JsonObject} \cup {JsonList(items) : items \in SeqsUpTo(PayloadCoins, MaxPayload)}

HttpResponse(status, decodes, body) ==
    [kind |-> "http", status |-> status, decodes |-> decodes, body |-> body]

Responses ==
    {[kind |-> k, status |-> 0, decodes |-> FALSE, body |-> JsonObject] :
        k \in {"timeout", "connection"}}
    \cup {HttpResponse(st, FALSE, JsonObject) : st \in {200, 429, 500}}
    \cup {HttpResponse(200, TRUE, body) : body \in Payloads}
    \cup {HttpResponse(st, TRUE, JsonObject) : st \in {404, 429}}

-----------------------------------------------------------------------------
(* database.py: connection_pool, get_connection and release_connection, called
   from several threads *)

\* the largest maxconn a pool is created with
MaxConn == 2

\* the threads that call get_connection: one more than the largest pool, so that a
\* call can find every connection of the pool checked out
Callers == 1 .. (MaxConn + 1)

\* the connections the server accepts during one behaviour
MaxOpened == 4

\* connection_pool = None
NoPool == [init |-> FALSE, minconn |-> 0, maxconn |-> 0, pool |-> <<>>, used |-> {}]

\* ThreadedConnectionPool(minconn, maxconn, ...): minconn connections are opened at
\* once and put on the free list _pool; _used holds the connections handed out
NewPool(minconn, maxconn, first) ==
    [init |-> TRUE, minconn |-> minconn, maxconn |-> maxconn,
     pool |-> [i \in 1..minconn |-> first + i - 1], used |-> {}]

MutPeekFree(free) == free

\* the free list after _pool.pop()
AfterPop(free) == SubSeq(free, 1, Len(free) - 1)

\* connection_pool.getconn(): the last free connection if there is one, a PoolError
\* if maxconn connections are handed out, a new connection otherwise
getconn(p, fresh) ==
    IF Len(p.pool) > 0
    THEN [conn |-> p.pool[Len(p.pool)], error |-> "none", isNew |-> FALSE,
          after |-> [p EXCEPT !.pool = AfterPop(p.pool),
                              !.used = p.used \cup {p.pool[Len(p.pool)]}]]
    ELSE IF Cardinality(p.used) = p.maxconn
    THEN [conn |-> 0, error |-> "connection pool exhausted", isNew |-> FALSE, after |-> p]
    ELSE [conn |-> fresh, error |-> "none", isNew |-> TRUE,
          after |-> [p EXCEPT !.used = p.used \cup {fresh}]]

\* connection_pool.putconn(conn): a PoolError for a connection this pool did not
\* hand out; otherwise the connection goes back on the free list while that holds
\* fewer than minconn connections, and is closed if not
putconn(p, conn) ==
    IF conn \notin p.used
    THEN [error |-> "trying to put unkeyed connection", closes |-> FALSE, after |-> p]
    ELSE IF Len(p.pool) < p.minconn
    THEN [error |-> "none", closes |-> FALSE,
          after |-> [p EXCEPT !.pool = Append(p.pool, conn), !.used = p.used \ {conn}]]
    ELSE [error |-> "none", closes |-> TRUE,
          after |-> [p EXCEPT !.used = p.used \ {conn}]]

PoolIdle ==
    /\ connection_pool = NoPool
    /\ opened = 0
    /\ closed = {}
    /\ cpc = [c \in Callers |-> "idle"]
    /\ cconn = [c \in Callers |-> 0]
    /\ cerr = [c \in Callers |-> "none"]
    /\ returned = {}

\* init_connection_pool(minconn, maxconn): the global is rebound to a new pool
init_connection_pool(minconn, maxconn) ==
    /\ opened + minconn <= MaxOpened
    /\ connection_pool' = NewPool(minconn, maxconn, opened + 1)
    /\ opened' = opened + minconn
    /\ UNCHANGED <<closed, cpc, cconn, cerr, returned>>
    /\ UNCHANGED <<tvars, evars, lvars, dvars, hvars, pvars>>

\* get_connection() called by c: a connection of the pool if connection_pool is
\* set, a connection of its own from psycopg2.connect if not
get_connection(c) ==
    /\ cpc[c] = "idle"
    /\ IF connection_pool.init
       THEN LET got == getconn(connection_pool, opened + 1)
            IN /\ got.isNew => opened < MaxOpened
               /\ connection_pool' = got.after
               /\ opened' = IF got.isNew THEN opened + 1 ELSE opened
               /\ cpc' = [cpc EXCEPT ![c] = IF got.error = "none" THEN "holding" ELSE "raised"]
               /\ cconn' = [cconn EXCEPT ![c] = got.conn]
               /\ cerr' = [cerr EXCEPT ![c] = got.error]
       ELSE /\ opened < MaxOpened
            /\ opened' = opened + 1
            /\ cpc' = [cpc EXCEPT ![c] = "holding"]
            /\ cconn' = [cconn EXCEPT ![c] = opened + 1]
            /\ UNCHANGED <<connection_pool, cerr>>
    /\ UNCHANGED <<closed, returned>>
    /\ UNCHANGED <<tvars, evars, lvars, dvars, hvars, pvars>>

\* release_connection(conn) called by c with the connection it was handed
release_connection(c) ==
    /\ cpc[c] = "holding"
    /\ IF connection_pool.init
       THEN LET put == putconn(connection_pool, cconn[c])
            IN /\ connection_pool' = put.after
               /\ closed' = IF put.closes THEN closed \cup {cconn[c]} ELSE closed
               /\ cpc' = [cpc EXCEPT ![c] = IF put.error = "none" THEN "idle" ELSE "raised"]
               /\ cerr' = [cerr EXCEPT ![c] = put.error]
               /\ returned' = IF put.error = "none" /\ ~put.closes
                              THEN returned \cup {cconn[c]} ELSE returned
       ELSE /\ closed' = closed \cup {cconn[c]}
            /\ cpc' = [cpc EXCEPT ![c] = "idle"]
            /\ UNCHANGED <<connection_pool, cerr, returned>>
    /\ cconn' = [cconn EXCEPT ![c] = 0]
    /\ UNCHANGED opened
    /\ UNCHANGED <<tvars, evars, lvars, dvars, hvars, pvars>>

\* the caller's handler has dealt with the exception; the caller may call again
CallerHandles(c) ==
    /\ cpc[c] = "raised"
    /\ cpc' = [cpc EXCEPT ![c] = "idle"]
    /\ cerr' = [cerr EXCEPT ![c] = "none"]
    /\ UNCHANGED <<connection_pool, opened, closed, cconn, returned>>
    /\ UNCHANGED <<tvars, evars, lvars, dvars, hvars, pvars>>

-----------------------------------------------------------------------------
(* extract_crypto_data as a call *)

ExtractIdle ==
    /\ response = HttpResponse(200, FALSE, JsonObject)
    /\ archiveFault = "none"
    /\ saveRaw = FALSE
    /\ epc = "idle"
    /\ eData = JsonObject
    /\ eResult = ExtractFailure(NoException)
    /\ httpCalls = 0
    /\ archive = <<>>

ExtractInit ==
    /\ response \in Responses
    /\ archiveFault \in {"none", "makedirs", "open"}
    /\ saveRaw \in BOOLEAN
    /\ epc = "start"
    /\ eData = JsonObject
    /\ eResult = ExtractFailure(NoException)
    /\ httpCalls = 0
    /\ archive = <<>>
    /\ TransformIdle
    /\ LoadIdle
    /\ PipelineIdle
    /\ PoolIdle

ExtractNext == HttpGet \/ CheckStatus \/ ParseJson \/ ValidateResponse \/ SaveAndReturn

SpecExtract == ExtractInit /\ [][ExtractNext]_vars

-----------------------------------------------------------------------------
(* get_connection and release_connection called from several threads *)

PoolInit ==
    /\ PoolIdle
    /\ TransformIdle
    /\ ExtractIdle
    /\ LoadIdle
    /\ PipelineIdle

PoolNext ==
    \/ \E maxconn \in 1..MaxConn : \E minconn \in 1..maxconn :
            init_connection_pool(minconn, maxconn)
    \/ \E c \in Callers : get_connection(c)
    \/ \E c \in Callers : release_connection(c)
    \/ \E c \in Callers : CallerHandles(c)

SpecPool == PoolInit /\ [][PoolNext]_vars

-----------------------------------------------------------------------------
(* load_data as a call, and as a second call on the same batch *)

LoadInit ==
    /\ ldata \in LoadBatches
    /\ lbatch \in {SmallBatch, DefaultBatchSize}
    /\ lpc = "call"
    /\ li = 1
    /\ success_count = 0
    /\ error_count = 0
    /\ lResult = LoadRaised
    /\ loadNo = 1
    /\ store \in InitialStores
    /\ txRows = {}
    /\ txAborted = FALSE
    /\ nextId = Cardinality(store) + 1
    /\ connHeld = 0
    /\ commits = 0
    /\ faultsLeft \in 0..MaxFaults
    /\ store0 = store
    /\ storeAfterFirst = {}
    /\ okRecs = {}
    /\ lfault = NoFault
    /\ rollbacks = 0
    /\ attempted = <<>>
    /\ TransformIdle
    /\ ExtractIdle
    /\ PipelineIdle
    /\ PoolIdle

LoadNext ==
    \/ LoadData \/ GetConnection \/ OpenCursor \/ LoadRecord \/ Commit
    \/ LoadExcept \/ LoadReturn \/ Crash \/ LoadAgain

SpecLoad == LoadInit /\ [][LoadNext]_vars

-----------------------------------------------------------------------------
(* the process started with --once or with --schedule *)

PipelineInit ==
    /\ mode \in {"once", "schedule"}
    /\ mainPc = "setup"
    /\ schemaReady = FALSE
    /\ run = [th \in Threads |-> NoRun]
    /\ instances = 0
    /\ ticks = 0
    /\ skipped = 0
    /\ started = 0
    /\ spc = "tc_connect"
    /\ sResult = "none"
    /\ sConn = FALSE
    /\ sCursor = FALSE
    /\ sPending = "none"
    /\ failedRuns = 0
    /\ stopAt = NoStop
    /\ exitCode = NoExit
    /\ TransformIdle
    /\ LoadIdle
    /\ ExtractIdle
    /\ PoolIdle

SetupNext ==
    \/ TestGetConnection \/ TestCursor \/ TestExecute \/ TestExcept
    \/ CreateGetConnection \/ CreateCursor \/ CreateExecute \/ CreateCommit
    \/ CreateExcept \/ CreateFinally
    \/ SetupDatabaseReturns \/ SetupDatabaseRaises

ThreadNext(th) ==
    StageReturns(th) \/ StageRaises(th) \/ StoreWrite(th) \/ StoreCommit(th) \/ JobEnds(th)

PipelineNext ==
    \/ SetupNext
    \/ MainRunStarts
    \/ MainRunEnds
    \/ ProcessExit
    \/ Tick
    \/ Interrupt
    \/ ShutdownEnds
    \/ \E th \in Threads : ThreadNext(th)

SpecPipeline == PipelineInit /\ [][PipelineNext]_vars

\* the same process under its scheduling: the interval keeps firing while the
\* scheduler runs, a stage that was started returns or raises, a thread that can take
\* its next step takes it. Nothing obliges a stage to fail or a stop signal to come.
SpecPipelineLive ==
    /\ PipelineInit
    /\ [][PipelineNext]_vars
    /\ WF_vars(Tick)
    /\ WF_vars(MainRunStarts \/ MainRunEnds \/ SetupNext \/ ShutdownEnds \/ ProcessExit)
    /\ \A th \in Threads : WF_vars(ThreadNext(th))

-----------------------------------------------------------------------------
(* transform_data as a call *)

TransformInit ==
    /\ rawIn \in {b \in RawBatches : Len(b) <= MaxBatch}
    /\ clock \in 1..MaxClock
    /\ tpc = "ready"
    /\ tResult = Failure
    /\ rawAfter = rawIn
    /\ clock2 = clock
    /\ tResult2 = Failure
    /\ ExtractIdle
    /\ LoadIdle
    /\ PipelineIdle
    /\ PoolIdle

\* result = transform_data(sample_data), which reads datetime.now() once
TransformData ==
    /\ tpc = "ready"
    /\ tResult' = transform_data(rawIn, clock)
    /\ rawAfter' = RawAfter(rawIn, clock)
    /\ tpc' = "done"
    /\ UNCHANGED <<rawIn, clock, clock2, tResult2>>
    /\ UNCHANGED <<evars, lvars, dvars, hvars, pvars, cvars>>

\* the caller passes the same list to transform_data once more, at a later or equal
\* time; the module keeps nothing from the first call
TransformAgain ==
    /\ tpc = "done"
    /\ \E now \in 1..MaxClock :
        /\ clock2' = now
        /\ tResult2' = transform_data(rawAfter, now)
    /\ tpc' = "again"
    /\ UNCHANGED <<rawIn, clock, tResult, rawAfter>>
    /\ UNCHANGED <<evars, lvars, dvars, hvars, pvars, cvars>>

TransformNext == TransformData \/ TransformAgain

SpecTransform == TransformInit /\ [][TransformNext]_vars

-----------------------------------------------------------------------------
(* Properties of transform_data *)

TransformDone == tpc = "done" /\ tResult.ok

Abs(n) == IF n < 0 THEN 0 - n ELSE n

\* C7 as stated: volatility_score = abs(price_change_24h) * total_volume and hence
\* volatility_score >= 0 for every output record, whatever its total_volume.
C7_AsClaimed ==
    TransformDone =>
        \A i \in 1..Len(tResult.data) :
            LET out == tResult.data[i]
            IN /\ 2 * out.volatility_score.h
                      = Abs(out.price_change_24h.h) * out.total_volume.h
               /\ out.volatility_score.h >= 0
               /\ out.price_change_24h.h = 0 => out.volatility_score.h = 0

\* C7 (amended): every record output by transform_data has volatility_score equal to
\* abs(price_change_24h) * total_volume of that same output record (values in halves:
\* 2 * score = |change| * volume); it is 0 when price_change_24h is 0 and it is not
\* negative when total_volume is not negative; an upstream volatility_score is ignored.
C7_VolatilityDerivation ==
    TransformDone =>
        \A i \in 1..Len(tResult.data) :
            LET out == tResult.data[i]
            IN /\ IsNumber(out.volatility_score)
               /\ 2 * out.volatility_score.h
                      = Abs(out.price_change_24h.h) * out.total_volume.h
               /\ out.total_volume.h >= 0 => out.volatility_score.h >= 0
               /\ out.price_change_24h.h = 0 => out.volatility_score.h = 0

\* a negative price change and a positive volume, with an upstream volatility_score
\* that differs from the computed one
C7_Witness ==
    /\ TransformDone
    /\ \E i \in 1..Len(rawIn) :
        /\ "volatility_score" \in DOMAIN rawIn[i]
        /\ rawIn[i]["volatility_score"] # tResult.data[i].volatility_score
        /\ tResult.data[i].price_change_24h.h < 0
        /\ tResult.data[i].total_volume.h > 0
        /\ tResult.data[i].volatility_score.h > 0

NullOrAbsent(coin, k) == k \notin DOMAIN coin \/ coin[k] = None

\* the defaults the specification states
StatedDefault(k) ==
    CASE k \in {"current_price", "price_change_24h"} -> PyFloat(0)
      [] k \in {"market_cap", "total_volume"} -> PyInt(0)
      [] k = "market_cap_rank" -> PyInt(9999)

OutField(out, k) ==
    CASE k = "current_price" -> out.current_price
      [] k = "market_cap" -> out.market_cap
      [] k = "total_volume" -> out.total_volume
      [] k = "price_change_24h" -> out.price_change_24h
      [] k = "market_cap_rank" -> out.market_cap_rank

\* C8: a null or absent current_price or price_change_24h is output as 0.0, a null or
\* absent market_cap or total_volume as 0, a null or absent market_cap_rank as 9999,
\* each field independently of the others (equality is Python's ==, under which the
\* int 0 of an absent field equals 0.0).
C8_NullDefaulting ==
    TransformDone =>
        \A i \in 1..Len(tResult.data) : \A k \in NumericFields :
            NullOrAbsent(rawIn[i], k) =>
                /\ IsNumber(OutField(tResult.data[i], k))
                /\ PyEq(OutField(tResult.data[i], k), StatedDefault(k))

\* one record with a null field, an absent field and a field that has a value
C8_Witness ==
    /\ TransformDone
    /\ \E i \in 1..Len(rawIn) :
        /\ "current_price" \in DOMAIN rawIn[i] /\ rawIn[i]["current_price"] = None
        /\ "market_cap_rank" \in DOMAIN rawIn[i] /\ rawIn[i]["market_cap_rank"] = None
        /\ "market_cap" \notin DOMAIN rawIn[i]
        /\ "total_volume" \in DOMAIN rawIn[i] /\ rawIn[i]["total_volume"] # None
        /\ tResult.data[i].market_cap_rank = PyInt(9999)
        /\ tResult.data[i].current_price = PyFloat(0)

\* C9: all the records one call of transform_data outputs carry the same
\* extracted_at, the one reading of the clock of that call.
C9_UniformTimestamp ==
    TransformDone =>
        \A i, j \in 1..Len(tResult.data) :
            /\ tResult.data[i].extracted_at = tResult.data[j].extracted_at
            /\ tResult.data[i].extracted_at = PyDatetime(clock)

C9_Witness ==
    /\ TransformDone
    /\ Len(tResult.data) >= 2
    /\ tResult.data[1].coin_id # tResult.data[2].coin_id

PersistenceFields ==
    {"coin_id", "symbol", "name", "current_price", "market_cap", "total_volume",
     "price_change_24h", "market_cap_rank", "volatility_score", "extracted_at"}

LowerCase == {"b", "t", "c", "e", "h", "i"}

\* C10: every output record has exactly the ten persistence fields; coin_id is the
\* input id, symbol the upper-cased input symbol, name the input name; every other
\* upstream field is dropped (id btc / symbol btc gives coin_id btc / symbol BTC).
C10_FieldProjection ==
    TransformDone =>
        /\ Len(tResult.data) = Len(rawIn)
        /\ \A i \in 1..Len(tResult.data) :
            LET out == tResult.data[i]
                coin == rawIn[i]
            IN /\ DOMAIN out = PersistenceFields
               /\ "id" \in DOMAIN coin => out.coin_id = coin["id"]
               /\ "name" \in DOMAIN coin => out.name = coin["name"]
               /\ "symbol" \in DOMAIN coin =>
                    /\ out.symbol.t = "str"
                    /\ Len(out.symbol.s) = Len(coin["symbol"].s)
                    /\ \A j \in 1..Len(out.symbol.s) :
                        /\ out.symbol.s[j] \notin LowerCase
                        /\ out.symbol.s[j] = UpperChar(coin["symbol"].s[j])
               /\ ("symbol" \in DOMAIN coin /\ coin["symbol"] = PyStr(<<"b", "t", "c">>)) =>
                    out.symbol = PyStr(<<"B", "T", "C">>)

\* a coin with a mixed-case symbol and a field outside the schema
C10_Witness ==
    /\ TransformDone
    /\ \E i \in 1..Len(rawIn) :
        /\ "image" \in DOMAIN rawIn[i]
        /\ "symbol" \in DOMAIN rawIn[i]
        /\ rawIn[i]["symbol"] = PyStr(<<"E", "t", "h">>)
        /\ tResult.data[i].symbol = PyStr(<<"E", "T", "H">>)
        /\ tResult.data[i].coin_id = PyStr(<<"b", "t", "c">>)

-----------------------------------------------------------------------------
(* Properties of extract_crypto_data *)

ExtractEnded == epc \in {"returned", "raised"}

\* the HTTP call answered 2xx with a body that decodes
Decoded == response.kind = "http" /\ response.status < 400 /\ response.decodes

Malformed(body) ==
    \/ ~body.isList
    \/ Len(body.items) = 0
    \/ \E i \in 1..Len(body.items) :
        \E field \in {"id", "symbol", "name", "current_price", "market_cap"} :
            field \notin DOMAIN body.items[i]

\* C5: a decoded payload that is not a list, is an empty list, or holds one record
\* lacking a required field makes the whole extraction call fail with no records;
\* what a call returns is the whole payload, never a subset of it.
C5_ValidationRejection ==
    (ExtractEnded /\ Decoded) =>
        /\ Malformed(response.body) => (~eResult.ok /\ eResult.data = <<>> /\ epc = "raised")
        /\ eResult.ok => (eResult.data = response.body.items /\ ~Malformed(response.body))

\* a payload whose first coin is complete and whose second lacks a required field
C5_Witness ==
    /\ epc = "raised"
    /\ Decoded
    /\ eResult.exc = "ValueError"
    /\ response.body.isList
    /\ Len(response.body.items) = 2
    /\ RequiredFields \subseteq DOMAIN response.body.items[1]
    /\ ~(RequiredFields \subseteq DOMAIN response.body.items[2])

\* C6: when the HTTP call succeeds and the payload passes validation, a failure of
\* the raw archive write does not fail extraction: the validated records are returned.
C6_BestEffortArchival ==
    (ExtractEnded /\ Decoded /\ ~Malformed(response.body)) =>
        (eResult.ok /\ eResult.data = response.body.items)

-----------------------------------------------------------------------------
(* Properties of load_data *)

DistinctCoinIds(batch) ==
    \A i, j \in 1..Len(batch) : i # j => batch[i].coin_id # batch[j].coin_id

OneExtractedAt(batch) ==
    \A i, j \in 1..Len(batch) : batch[i].extracted_at = batch[j].extracted_at

Violating(batch) == {i \in 1..Len(batch) : ViolatesConstraint(batch[i])}

RowsOfBatch(rows, batch) ==
    {row \in rows : \E i \in 1..Len(batch) : SameKey(row, batch[i])}

RowsAt(rows, batch) ==
    {row \in rows : \E i \in 1..Len(batch) : row.extracted_at = batch[i].extracted_at}

C3_PartialLoadResilience ==
    (lpc = "returned" /\ loadNo = 1 /\ lbatch = DefaultBatchSize) =>
        /\ lResult.ok
        /\ lResult.total = Len(ldata)
        /\ lResult.error_count = Cardinality(Violating(ldata))
        /\ lResult.success_count = Len(ldata) - Cardinality(Violating(ldata))

-----------------------------------------------------------------------------
(* Properties of run_etl_pipeline and of the run modes *)

\* the executions of run_etl_pipeline that have not yet returned
ActiveRuns == {th \in Threads : run[th].pc \in {"extracting", "transforming", "loading",
                                               "completed", "failed"}}

\* C2: in recurring mode at most one execution of run_etl_pipeline is active in every
\* reachable state: an interval that fires while a run is extracting, transforming or
\* loading starts no second run beside it.
C2_SingleActiveRun ==
    mode = "schedule" => Cardinality(ActiveRuns) <= 1

\* the interval fired while a scheduled run was loading, and no run was started for it
C2_Witness ==
    /\ mode = "schedule"
    /\ skipped > 0
    /\ \E th \in PoolThreads : run[th].pc = "loading"
    /\ Cardinality(ActiveRuns) = 1

IsPrefix(p, q) == Len(p) <= Len(q) /\ \A i \in 1..Len(p) : p[i] = q[i]

\* C4: in one run the stages start in the order extract, transform, load, each after
\* the one before it returned; a stage that raises ends the run in the failed outcome
\* (False) and no later stage of that run starts: no transform after a failed
\* extract, no load and no table write after a failed extract or transform.
C4_StagesInOrder ==
    \A th \in Threads :
        LET r == run[th]
        IN /\ IsPrefix(r.stages, <<"extract", "transform", "load">>)
           /\ r.pc = "extracting" => r.stages = <<"extract">>
           /\ r.pc = "transforming" => r.stages = <<"extract", "transform">>
           /\ r.pc = "loading" => r.stages = <<"extract", "transform", "load">>
           /\ r.pc = "completed" => (r.stages = <<"extract", "transform", "load">>
                                     /\ r.failedAt = "none")
           /\ r.failedAt # "none" =>
                /\ r.pc \in {"failed", "ended"}
                /\ r.result \in {"none", "False"}
                /\ r.stages[Len(r.stages)] = r.failedAt
           /\ r.failedAt \in {"extract", "transform"} => ~r.wrote
           /\ r.wrote => r.stages = <<"extract", "transform", "load">>
           /\ r.result = "True" => (r.failedAt = "none" /\ Len(r.stages) = 3)
           /\ r.result = "False" => r.failedAt # "none"

\* a run whose transform raised has returned False, and a later run of the schedule
\* has written to the table
C4_Witness ==
    /\ run[MainThread].failedAt = "transform"
    /\ run[MainThread].result = "False"
    /\ run[MainThread].stages = <<"extract", "transform">>
    /\ \E th \in PoolThreads : run[th].wrote /\ run[th].result = "True"

-----------------------------------------------------------------------------
(* Properties of transform_data: coercion failures *)

IntFields == {"market_cap", "total_volume", "market_cap_rank"}

\* text that float() or int() rejects: it holds a character that is no digit, point
\* or sign, or it holds a point and is meant for int()
NotANumber(k, v) ==
    /\ v.t = "str"
    /\ \/ \E i \in 1..Len(v.s) : v.s[i] \notin Digits \cup {".", "-"}
       \/ k \in IntFields /\ \E i \in 1..Len(v.s) : v.s[i] = "."

Uncoercible(coin) == \E k \in NumericFields \cap DOMAIN coin : NotANumber(k, coin[k])

\* C11: if some record of the batch holds, in current_price, market_cap, total_volume,
\* price_change_24h or market_cap_rank, a value that cannot be coerced to a number, the
\* transform_data call fails as a whole and yields no record, the good ones included.
C11_AllOrNothing ==
    (tpc = "done" /\ \E i \in 1..Len(rawIn) : Uncoercible(rawIn[i]))
        => ~tResult.ok /\ tResult.data = <<>>

\* a batch of a coercible record and an uncoercible one, transformed and failed
C11_Witness ==
    /\ tpc = "done"
    /\ Len(rawIn) = 2
    /\ ~Uncoercible(rawIn[1])
    /\ transform_data(<<rawIn[1]>>, clock).ok
    /\ Uncoercible(rawIn[2])
    /\ ~tResult.ok

-----------------------------------------------------------------------------
(* Properties of load_batch: sub-batches, failures of the connection, keys *)

Ceil(n, b) == (n + b - 1) \div b

\* the six columns of the row hold the values of the record
HoldsValuesOf(row, record) ==
    /\ row.current_price = SqlFloat(record.current_price)
    /\ row.market_cap = SqlInteger(record.market_cap)
    /\ row.total_volume = SqlInteger(record.total_volume)
    /\ row.price_change_24h = SqlFloat(record.price_change_24h)
    /\ row.market_cap_rank = SqlInteger(record.market_cap_rank)
    /\ row.volatility_score = SqlFloat(record.volatility_score)

\* the records of the sub-batches that were committed before the load stopped
InCommittedSubBatches(i) == i <= commits * lbatch

\* C13: load_batch commits once after each sub-batch of at most batch_size records, in
\* input order; and when the load stops abnormally (it raised, or the process was
\* killed) in sub-batch k, every record that load_single_record wrote successfully in
\* the sub-batches 1..k-1 has its row in the table.
C13_SubBatchDurability ==
    /\ lpc = "record" => commits = (li - 1) \div lbatch
    /\ lpc = "commit" => commits = Ceil(li - 1, lbatch) - 1
    /\ lpc \in {"finish", "returned"} => commits = Ceil(Len(ldata), lbatch)
    /\ lpc \in {"raised", "crashed"} =>
        \A i \in okRecs :
            InCommittedSubBatches(i) => \E row \in store : SameKey(row, ldata[i])

\* C14: when get_connection, conn.cursor() or a commit raises, load_batch stops there:
\* no further record is executed and no further commit made, it rolls back exactly when
\* a connection exists, releases that connection, and raises instead of returning a
\* result with counts.
C14_ConnectionFailureFatal ==
    /\ lfault.kind # "none" =>
        /\ lpc \in {"except", "raised"}
        /\ li = lfault.li
        /\ commits = lfault.commits
    /\ lpc = "raised" =>
        /\ lfault.kind \in {"connect", "cursor", "commit"}
        /\ ~lResult.ok
        /\ rollbacks = IF lfault.kind = "connect" THEN 0 ELSE 1
        /\ connHeld = 0

\* the commit of the first sub-batch of two raised: rolled back, raised, the third
\* record never executed
C14_Witness ==
    /\ lpc = "raised"
    /\ lfault.kind = "commit"
    /\ lbatch = SmallBatch
    /\ Len(ldata) = 3
    /\ li = 3
    /\ commits = 0
    /\ rollbacks = 1
    /\ ~lResult.ok

KeysUnique(rows) ==
    \A r1, r2 \in rows :
        (r1.coin_id = r2.coin_id /\ r1.extracted_at = r2.extracted_at) => r1 = r2

HasKey(rows, record) ==
    \E row \in rows : row.coin_id = record.coin_id /\ row.extracted_at = record.extracted_at

\* the statement of load_single_record ran without error in this step
RecordWritten == lpc = "record" /\ success_count' = success_count + 1

\* C15: the table, committed or as the open transaction sees it, never holds two rows
\* with one (coin_id, extracted_at); a record written under a key the table lacks adds
\* exactly one row and changes no other; one written under a key the table has adds no
\* row and leaves that row holding the record's six numeric values.
C15_KeyUniquenessAndUpsert ==
    /\ [](KeysUnique(store) /\ KeysUnique(txRows))
    /\ [][RecordWritten =>
            LET record == ldata[li]
            IN /\ IF HasKey(txRows, record)
                  THEN Cardinality(txRows') = Cardinality(txRows)
                  ELSE Cardinality(txRows') = Cardinality(txRows) + 1 /\ txRows \subseteq txRows'
               /\ \E row \in txRows' :
                    /\ row.coin_id = record.coin_id
                    /\ row.extracted_at = record.extracted_at
                    /\ HoldsValuesOf(row, record)]_vars

\* both cases happened in one load that was committed: a record updated the row of an
\* earlier run, another added a row beside a row of the same coin at another time
C15_Witness ==
    /\ lpc = "returned"
    /\ store0 # {}
    /\ \E i \in okRecs : HasKey(store0, ldata[i]) /\ \E row \in store : HoldsValuesOf(row, ldata[i]) /\ SameKey(row, ldata[i]) /\ row \notin store0
    /\ \E j \in okRecs :
        /\ ~HasKey(store0, ldata[j])
        /\ \E old \in store0 : old.coin_id = ldata[j].coin_id
        /\ HasKey(store, ldata[j])
    /\ Cardinality(store) > Cardinality(store0)

-----------------------------------------------------------------------------
(* Properties of the connections, of setup_database and of the run modes *)

\* C12: when a caller of get_connection has returned or raised (here load_batch, and
\* test_connection and create_tables inside setup_database), whatever failed on the
\* way, every connection it acquired has been passed to release_connection: none is
\* acquired and not released.
C12_ScopedAcquisition ==
    /\ lpc \in {"returned", "raised"} => connHeld = 0
    /\ spc \in {"returned", "raised"} => connHeld = 0

\* C16: in recurring mode a run that returned False leaves the process inside the
\* scheduler (until a stop signal comes), however many runs failed in a row; and with
\* the interval still to fire and no stop signal, another run is started later.
C16_ScheduleSurvivesFailures ==
    /\ []((mode = "schedule" /\ failedRuns >= 1 /\ stopAt = NoStop) => mainPc = "scheduling")
    /\ (mode = "schedule" /\ failedRuns >= 1 /\ mainPc = "scheduling" /\ instances = 0
            /\ ticks < MaxTicks)
        ~> (instances >= 1 \/ stopAt # NoStop)

\* the first run and the next two runs of the schedule failed, and a further run is on
\* its way
C16_Witness ==
    /\ mode = "schedule"
    /\ failedRuns = 3
    /\ run[MainThread].result = "False"
    /\ stopAt = NoStop
    /\ instances = 1
    /\ \E th \in PoolThreads : Running(run[th])

\* C17: an interval that fires while a run is active is deferred, not dropped: its run
\* is started once the active run is over. The scheduler keeps no run waiting, so
\* whenever no run of the schedule is active every interval fired so far has had its
\* run started.
C17_DeferredNotDropped ==
    (mode = "schedule" /\ instances = 0) => started = ticks

\* C18: in run-once mode the process ends with a non-zero status when its run failed,
\* and with status 0 only when the run completed.
C18_RunOnceFailureSignal ==
    (mode = "once" /\ mainPc = "exited") =>
        /\ run[MainThread].result = "False" => exitCode # 0
        /\ exitCode = 0 => run[MainThread].result = "True"

\* C19: in both modes a run has started only if setup_database returned True, having
\* established crypto_market with its unique constraint and indexes; after a setup
\* that returned False or raised no run has started.
C19_SchemaBeforeFirstRun ==
    \A th \in Threads :
        run[th].pc # "idle" => (sResult = "True" /\ schemaReady)

\* C20: in recurring mode, after the stop signal no run is started, and the signal
\* stops no run, the immediate first run included, between a write of records and
\* the commit of their sub-batch.
C20_CooperativeCancellation ==
    /\ stopAt # NoStop => (started = stopAt /\ mainPc # "run")
    /\ \A th \in Threads : run[th].pc = "interrupted" => ~run[th].uncommitted

-----------------------------------------------------------------------------
(* Properties of load_data: the empty batch, the counts, the rows *)

\* C21: load_data of an empty list never reaches get_connection and touches nothing:
\* it is at its call or has returned success_count = 0, error_count = 0, total = 0,
\* no connection is acquired, nothing raised, no statement or commit was run, and the
\* table holds the rows it held before.
C21_EmptyLoadNoOp ==
    Len(ldata) = 0 =>
        /\ lpc \in {"call", "returned"}
        /\ lpc = "returned" => lResult = LoadResult(0, 0, 0)
        /\ connHeld = 0
        /\ lfault = NoFault
        /\ commits = 0
        /\ nextId = Cardinality(store0) + 1
        /\ store = store0

\* the empty list loaded into a table that holds rows, and loaded again
C21_Witness ==
    /\ Len(ldata) = 0
    /\ lpc = "returned"
    /\ loadNo = 2
    /\ lResult.ok
    /\ lResult.total = 0
    /\ Cardinality(store) = 2

OwnKey(a, b) == a.coin_id = b.coin_id /\ a.extracted_at = b.extracted_at

\* C27: when load_data has returned, every record it counted in success_count has a
\* row under its (coin_id, extracted_at), holding the six values of that record or of
\* a later counted record of the batch with the same key: no failure of another record
\* of the sub-batch makes a counted success disappear at the commit.
C27_ReportedSuccessStored ==
    lpc = "returned" =>
        /\ lResult.success_count = Cardinality(okRecs)
        /\ \A i \in okRecs :
            \E row \in store :
                /\ OwnKey(row, ldata[i])
                /\ \E j \in okRecs :
                    j >= i /\ OwnKey(ldata[j], ldata[i]) /\ HoldsValuesOf(row, ldata[j])

\* C28: when load_data has returned for N records, success_count + error_count =
\* total = N, load_single_record was called once for every record, in input order, and
\* conn.commit() was called ceil(N / batch_size) times.
C28_LoadAccounting ==
    lpc = "returned" =>
        /\ lResult.ok
        /\ lResult.success_count + lResult.error_count = lResult.total
        /\ lResult.total = Len(ldata)
        /\ attempted = [i \in 1..Len(ldata) |-> i]
        /\ commits = Ceil(Len(ldata), lbatch)

\* three records in two sub-batches, successes and errors among them
C28_Witness ==
    /\ lpc = "returned"
    /\ Len(ldata) = 3
    /\ lbatch = SmallBatch
    /\ commits = 2
    /\ lResult.success_count >= 1
    /\ lResult.error_count >= 1
    /\ attempted = <<1, 2, 3>>

\* the row is still there with its id, coin_id, symbol, name and extracted_at, and
\* is the same row altogether unless a record with its key was loaded
Kept(row, rows, touched) ==
    \E r \in rows :
        /\ r.id = row.id
        /\ r.coin_id = row.coin_id
        /\ r.symbol = row.symbol
        /\ r.name = row.name
        /\ r.extracted_at = row.extracted_at
        /\ ~touched => r = row

\* C30: a statement that meets an existing (coin_id, extracted_at) leaves the id,
\* coin_id, symbol, name and extracted_at of that row as they were, whatever symbol
\* and name the record carries, and leaves every row of another key as it was; no
\* step of a load removes a committed row or changes one whose key is not in the batch.
C30_UpsertFrame ==
    [][/\ \A row \in store :
            Kept(row, store', \E i \in 1..Len(ldata) : OwnKey(row, ldata[i]))
       /\ RecordWritten =>
            \A row \in txRows : Kept(row, txRows', OwnKey(row, ldata[li]))]_vars

\* a committed load updated the row of an earlier run from a record with another
\* name: the row kept its id and name and took the values; a row of another key stayed
C30_Witness ==
    /\ lpc = "returned"
    /\ \E i \in okRecs : \E old \in store0 : \E row \in store :
        /\ OwnKey(old, ldata[i])
        /\ old.name # ldata[i].name
        /\ row.id = old.id
        /\ row.name = old.name
        /\ row # old
        /\ HoldsValuesOf(row, ldata[i])
    /\ \E other \in store0 \cap store : \A i \in 1..Len(ldata) : ~OwnKey(other, ldata[i])

-----------------------------------------------------------------------------
(* Properties of transform_data: nulls outside the numeric fields, purity *)

IsNull(coin, k) == k \in DOMAIN coin /\ coin[k] = None

OutText(out, k) ==
    CASE k = "id" -> out.coin_id
      [] k = "symbol" -> out.symbol
      [] k = "name" -> out.name

\* C25: a null in id, symbol or name of an input record passes through: when no
\* record of the batch has an uncoercible number, transform_data succeeds and the
\* output record has null in coin_id, symbol or name wherever the input record had
\* null in id, symbol or name.
C25_NullPassThrough ==
    (tpc = "done" /\ \A i \in 1..Len(rawIn) : ~Uncoercible(rawIn[i])) =>
        /\ tResult.ok
        /\ \A i \in 1..Len(rawIn) : \A k \in {"id", "symbol", "name"} :
            IsNull(rawIn[i], k) => OutText(tResult.data[i], k) = None

\* all fields of an output record but extracted_at
SameButTimestamp(a, b) == [a EXCEPT !.extracted_at = None] = [b EXCEPT !.extracted_at = None]

\* C26: transform_data leaves the caller's list and its dicts as they were, whether it
\* returns or raises; and a second call on that list, at whatever time, succeeds or
\* fails as the first did and returns as many records, equal to those of the first
\* call position by position in every field except extracted_at.
C26_TransformPurity ==
    /\ tpc \in {"done", "again"} => rawAfter = rawIn
    /\ tpc = "again" =>
        /\ tResult2.ok = tResult.ok
        /\ Len(tResult2.data) = Len(tResult.data)
        /\ \A i \in 1..Len(tResult.data) :
            SameButTimestamp(tResult2.data[i], tResult.data[i])

\* two records, a null defaulted and a string coerced on the way, transformed twice
\* at different times
C26_Witness ==
    /\ tpc = "again"
    /\ tResult.ok
    /\ Len(rawIn) = 2
    /\ clock2 # clock
    /\ tResult2.data[1].extracted_at # tResult.data[1].extracted_at
    /\ \E i \in 1..2 : \E k \in NumericFields \cap DOMAIN rawIn[i] :
        rawIn[i][k] = None \/ rawIn[i][k].t = "str"

-----------------------------------------------------------------------------
(* Properties of extract_crypto_data: requests and kinds of failure *)

\* why the call fails, as the network and the API decide it
Cause ==
    IF response.kind \in {"timeout", "connection"} THEN "transport"
    ELSE IF response.status = 429 THEN "throttled"
    ELSE IF response.status >= 400 THEN "transport"
    ELSE IF ~response.decodes \/ Malformed(response.body) THEN "shape"
    ELSE "none"

\* what a caller reads from the class of the exception it catches
KindOfException(exc) ==
    CASE exc = "Exception" -> "throttled"
      [] exc \in {"Timeout", "ConnectionError", "HTTPError"} -> "transport"
      [] exc \in {"ValueError", "JSONDecodeError"} -> "shape"
      [] OTHER -> "other"

\* C23: a call of extract_crypto_data issues one HTTP request, never a second one,
\* whatever the outcome, HTTP 429 included; and the class of the exception it raises
\* tells throttling (429), a transport or non-2xx failure, and a payload-shape
\* failure apart: each of the three raises classes the other two never raise.
C23_OneCallTypedOutcome ==
    /\ httpCalls <= 1
    /\ ExtractEnded => httpCalls = 1
    /\ (epc = "raised" /\ Cause # "none") => KindOfException(eResult.exc) = Cause
    /\ (ExtractEnded /\ Cause # "none") => epc = "raised"

\* a call answered 429 has raised the plain Exception after its one request
C23_Witness ==
    /\ epc = "raised"
    /\ response.kind = "http"
    /\ response.status = 429
    /\ httpCalls = 1
    /\ eResult.exc = "Exception"

-----------------------------------------------------------------------------
(* Properties of run_etl_pipeline: the outcome and the counts of the load *)

\* C29: a run ends completed (returns True) exactly when extract, transform and load
\* all returned without raising, and failed (returns False) exactly when one of them
\* raised; a load that returned counts with error_count > 0, or with error_count =
\* total and nothing written, ends the run completed all the same.
C29_OutcomeIgnoresLoadErrors ==
    \A th \in Threads :
        LET r == run[th]
        IN /\ r.pc \in {"completed", "failed"} => (r.pc = "completed" <=> r.failedAt = "none")
           /\ r.pc = "completed" => r.stages = <<"extract", "transform", "load">>
           /\ r.loadErrors # "n/a" => r.pc = "completed"
           /\ r.result = "True" <=>
                (r.pc = "ended" /\ r.failedAt = "none"
                    /\ r.stages = <<"extract", "transform", "load">>)
           /\ r.result = "False" <=> (r.pc = "ended" /\ r.failedAt # "none")

\* a run whose load returned error_count = total, having written nothing, is completed
C29_Witness ==
    \E th \in Threads :
        /\ run[th].pc = "completed"
        /\ run[th].loadErrors = "all"
        /\ ~run[th].wrote
        /\ run[th].failedAt = "none"

-----------------------------------------------------------------------------
(* Properties of the connection pool *)

\* the connections handed out by the pool that is now bound to connection_pool
CheckedOut == Cardinality(connection_pool.used)

\* C22: with the pool initialized with maximum maxconn, the number of connections
\* checked out never exceeds maxconn, and a get_connection call made while maxconn
\* connections are checked out waits for a release instead of failing: no call of
\* get_connection ends with the pool's exhaustion error.
C22_AcquisitionBlocksWhenExhausted ==
    connection_pool.init =>
        /\ CheckedOut <= connection_pool.maxconn
        /\ \A c \in Callers : cerr[c] # "connection pool exhausted"

\* C24: no connection is held by two callers at once, with the pool initialized or
\* not; a connection a caller holds is neither on the free list of the pool nor closed.
C24_ExclusiveOwnership ==
    /\ \A c1, c2 \in Callers :
            (c1 # c2 /\ cpc[c1] = "holding" /\ cpc[c2] = "holding") => cconn[c1] # cconn[c2]
    /\ \A c \in Callers :
            cpc[c] = "holding" =>
                /\ cconn[c] \in 1..opened
                /\ cconn[c] \notin closed
                /\ \A i \in 1..Len(connection_pool.pool) : connection_pool.pool[i] # cconn[c]

\* two callers hold connections of an initialized pool, one of them a connection that
\* was held and released before
C24_Witness ==
    /\ connection_pool.init
    /\ \E c1, c2 \in Callers :
            /\ c1 # c2
            /\ cpc[c1] = "holding"
            /\ cpc[c2] = "holding"
            /\ cconn[c1] \in connection_pool.used
            /\ cconn[c2] \in connection_pool.used
            /\ cconn[c1] \in returned

\* a caller holds a connection of its own, opened while connection_pool was None,
\* while another caller holds a connection handed out by the pool
C24_WitnessBothModes ==
    \E c1, c2 \in Callers :
        /\ cpc[c1] = "holding"
        /\ cpc[c2] = "holding"
        /\ connection_pool.init
        /\ cconn[c1] \notin connection_pool.used
        /\ cconn[c2] \in connection_pool.used

====
